---- MODULE Spec2Model ----
(***************************************************************************)
(* Model of RetroReco.run_mymini (src/retro/reco.py), the CRS2-style       *)
(* "spherical simplex" minimiser, together with the loglike callback it    *)
(* drives, of generate_loglike, which builds the event's arrays, and of    *)
(* the assembly of the result records in run.                              *)
(*                                                                         *)
(* Numbers.  Every real number is an exact rational <<num, den>> with      *)
(* den > 0 and gcd(num, den) = 1 (floating point rounding is modelled in   *)
(* SpecGeom's linear reflection only).  Angles are rationals in units of   *)
(* pi/2 (a quarter turn), so                                               *)
(* 2*pi is 4.  The trigonometric functions are given exactly on the        *)
(* multiples of pi/2 and on the axis directions, which is the set of       *)
(* directions the modelled populations stay in.                            *)
(*                                                                         *)
(* The log-likelihood returned by the external evaluator get_llh is an     *)
(* integer or a non-finite value (nan, inf).  At the start points it is    *)
(* fixed by the event that is reconstructed; at every reflected point it   *)
(* is drawn afresh.                                                        *)
(***************************************************************************)
EXTENDS Integers, Sequences, FiniteSets, TLC

(***************************************************************************)
(* Sizes.  The source fixes N = 160, n_cart = 4, 50000 iterations and a    *)
(* stagnation limit of 2000; the model runs the same code on scaled-down   *)
(* values.                                                                 *)
(***************************************************************************)
\* population size (reco.py:673, N = 160)
N == 5
\* number of linear parameters (reco.py:587, n_cart = 4)
n_cart == 1
\* number of (azimuth, zenith) pairs (reco.py:588)
n_spher == 1
\* length of a flat parameter vector (reco.py:586, self.n_opt_params)
n == n_cart + 2 * n_spher
\* iteration cap of the main loop (reco.py:721, range(50000))
MaxIter == 3
\* stagnation limit (reco.py:734, no_improvement_counter > 2000)
MaxNoImprovement == 0
\* the evaluator returns a finite llh in -MaxFx .. 1, or a non-finite one
MaxFx == 4
\* half width of the interval the model's uniform prior maps [0,1] onto
PriorHalfWidth == 2
\* number of rows of the detector table
NumDoms == 2
\* an event has at most MaxHits hits
MaxHits == 2
\* a finite hit charge is in 0 .. MaxCharge
MaxCharge == 1
\* a noise rate is in 0 .. MaxNoise, in units of 5e-8 per ns
MaxNoise == 3
\* the noise floor 1e-7 (reco.py:409-410) in units of 5e-8 per ns
NoiseFloor == 2
\* the evaluator's step index is in 0 .. MaxPeglegIdx
MaxPeglegIdx == 0
\* the evaluator's scale factor is in 1 .. MaxScalefactor
MaxScalefactor == 1

(***************************************************************************)
(* Exact rationals.                                                        *)
(***************************************************************************)
Abs(a) == IF a < 0 THEN -a ELSE a

RECURSIVE GCD(_, _)
GCD(a, b) == IF b = 0 THEN a ELSE GCD(b, a % b)

\* the rational a/b in lowest terms, b # 0
R(a, b) ==
    LET g == GCD(Abs(a), Abs(b))
        s == IF b < 0 THEN -1 ELSE 1
    IN  <<(s * a) \div g, (s * b) \div g>>

RInt(a) == <<a, 1>>
RZero == <<0, 1>>
ROne == <<1, 1>>
RAdd(r, s) == R(r[1] * s[2] + s[1] * r[2], r[2] * s[2])
RSub(r, s) == R(r[1] * s[2] - s[1] * r[2], r[2] * s[2])
RMul(r, s) == R(r[1] * s[1], r[2] * s[2])
RDiv(r, s) == R(r[1] * s[2], r[2] * s[1])
RNeg(r) == <<-r[1], r[2]>>
RLt(r, s) == r[1] * s[2] < s[1] * r[2]
RSq(r) == RMul(r, r)

\* exact square root of a rational that is the square of a rational
ISqrt(m) == CHOOSE r \in 0..m : r * r = m
RSqrt(r) == <<ISqrt(r[1]), ISqrt(r[2])>>

\* r modulo the positive integer m (numpy's %: the result is in [0, m))
RMod(r, m) == R(r[1] % (m * r[2]), r[2])

RECURSIVE RSum(_, _)
\* sum of f[j] over j in the finite set S
RSum(f, S) ==
    IF S = {} THEN RZero
    ELSE LET j == CHOOSE j \in S : TRUE IN RAdd(f[j], RSum(f, S \ {j}))

(***************************************************************************)
(* Trigonometry on quarter turns (angles are in units of pi/2).            *)
(***************************************************************************)
\* np.sin at a multiple of pi/2
Sin(a) ==
    LET q == RMod(a, 4)
    IN  CASE q = RInt(0) -> RInt(0)
          [] q = RInt(1) -> RInt(1)
          [] q = RInt(2) -> RInt(0)
          [] q = RInt(3) -> RInt(-1)

\* np.cos at a multiple of pi/2
Cos(a) == Sin(RAdd(a, RInt(1)))

\* np.arccos at -1, 0, 1
ArcCos(c) ==
    CASE c = RInt(1) -> RInt(0)
      [] c = RInt(0) -> RInt(1)
      [] c = RInt(-1) -> RInt(2)

\* np.arctan2(y, x) for (x, y) on an axis or at the origin
ArcTan2(y, x) ==
    CASE y = RZero /\ ~RLt(x, RZero) -> RInt(0)
      [] y = RZero /\ RLt(x, RZero) -> RInt(2)
      [] x = RZero /\ RLt(RZero, y) -> RInt(1)
      [] x = RZero /\ RLt(y, RZero) -> RInt(-1)

(***************************************************************************)
(* Spherical points (the spher_cord record type).                          *)
(***************************************************************************)
\* a row of np.zeros(..., dtype=spher_cord)
ZeroSpher ==
    [zen |-> RZero, az |-> RZero, x |-> RZero, y |-> RZero, z |-> RZero,
     sinzen |-> RZero, coszen |-> RZero, sinaz |-> RZero, cosaz |-> RZero]

\* fill in the remaining values given the two angles zen and az
fill_from_spher(s) ==
    LET sinzen == Sin(s.zen)
        coszen == Cos(s.zen)
        sinaz == Sin(s.az)
        cosaz == Cos(s.az)
    IN  [s EXCEPT !.sinzen = sinzen, !.coszen = coszen,
                  !.sinaz = sinaz, !.cosaz = cosaz,
                  !.x = RMul(sinzen, cosaz),
                  !.y = RMul(sinzen, sinaz),
                  !.z = coszen]

\* a slip in the normalisation: z is not divided by the radius
fill_from_cart_KeepZ(s) ==
    LET radius == RSqrt(RAdd(RAdd(RSq(s.x), RSq(s.y)), RSq(s.z)))
    IN  IF radius # RZero
        THEN LET x == RDiv(s.x, radius)
                 y == RDiv(s.y, radius)
                 z == RDiv(s.z, radius)
                 az == RMod(ArcTan2(y, x), 4)
                 zen == ArcCos(z)
             IN  [s EXCEPT !.x = x, !.y = y, !.az = az,
                           !.coszen = z, !.zen = zen, !.sinzen = Sin(zen),
                           !.sinaz = Sin(az), !.cosaz = Cos(az)]
        ELSE [s EXCEPT !.z = ROne, !.az = RZero, !.zen = RZero,
                       !.coszen = ROne, !.sinzen = RZero,
                       !.cosaz = ROne, !.sinaz = RZero]

\* a slip in the degenerate case: the zero vector is left as it is
fill_from_cart_NoPole(s) ==
    LET radius == RSqrt(RAdd(RAdd(RSq(s.x), RSq(s.y)), RSq(s.z)))
    IN  IF radius # RZero
        THEN LET x == RDiv(s.x, radius)
                 y == RDiv(s.y, radius)
                 z == RDiv(s.z, radius)
                 az == RMod(ArcTan2(y, x), 4)
                 zen == ArcCos(z)
             IN  [s EXCEPT !.x = x, !.y = y, !.z = z, !.az = az,
                           !.coszen = z, !.zen = zen, !.sinzen = Sin(zen),
                           !.sinaz = Sin(az), !.cosaz = Cos(az)]
        ELSE s

\* fill in the remaining values given the cartesian coordinates x, y and z
fill_from_cart(s) ==
    LET radius == RSqrt(RAdd(RAdd(RSq(s.x), RSq(s.y)), RSq(s.z)))
    IN  IF radius # RZero
        THEN LET x == RDiv(s.x, radius)
                 y == RDiv(s.y, radius)
                 z == RDiv(s.z, radius)
                 az == RMod(ArcTan2(y, x), 4)
                 zen == ArcCos(z)
             IN  [s EXCEPT !.x = x, !.y = y, !.z = z, !.az = az,
                           !.coszen = z, !.zen = zen, !.sinzen = Sin(zen),
                           !.sinaz = Sin(az), !.cosaz = Cos(az)]
        ELSE [s EXCEPT !.z = ROne, !.az = RZero, !.zen = RZero,
                       !.coszen = ROne, !.sinzen = RZero,
                       !.cosaz = ROne, !.sinaz = RZero]

\* reflect the old point around the centroid into the new point on the sphere
reflect(old, centroid, new) ==
    LET x == old.x
        y == old.y
        z == old.z
        ca == centroid.cosaz
        sa == centroid.sinaz
        cz == centroid.coszen
        sz == centroid.sinzen
        two == RInt(2)
        \* -ca*cz**2 + ca*sz**2
        u == RAdd(RNeg(RMul(ca, RSq(cz))), RMul(ca, RSq(sz)))
        \* -cz**2*sa + sa*sz**2
        v == RAdd(RNeg(RMul(RSq(cz), sa)), RMul(sa, RSq(sz)))
        nx == RAdd(RAdd(RMul(two, RMul(RMul(ca, cz), RMul(sz, z))),
                        RMul(x, RSub(RMul(ca, u), RSq(sa)))),
                   RMul(y, RAdd(RMul(ca, sa), RMul(sa, u))))
        ny == RAdd(RAdd(RMul(two, RMul(RMul(cz, sa), RMul(sz, z))),
                        RMul(x, RAdd(RMul(ca, sa), RMul(ca, v)))),
                   RMul(y, RAdd(RNeg(RSq(ca)), RMul(sa, v))))
        nz == RAdd(RAdd(RMul(two, RMul(RMul(ca, cz), RMul(sz, x))),
                        RMul(two, RMul(RMul(cz, sa), RMul(sz, y)))),
                   RMul(z, RSub(RSq(cz), RSq(sz))))
    IN  fill_from_cart([new EXCEPT !.x = nx, !.y = ny, !.z = nz])

(***************************************************************************)
(* Flat parameter vectors: the n_cart linear values, then azimuth_1,       *)
(* zenith_1, azimuth_2, zenith_2, ...                                      *)
(***************************************************************************)
IsAz(d) == d > n_cart /\ (d - n_cart) % 2 = 1
IsZen(d) == d > n_cart /\ (d - n_cart) % 2 = 0
\* the directional pair a flat index d > n_cart belongs to
PairOf(d) == (d - n_cart + 1) \div 2

\* a slip in create_x: the two strided slices are exchanged
create_x_Swapped(x_cart, x_spher) ==
    [d \in 1..n |->
        IF d <= n_cart THEN x_cart[d]
        ELSE IF IsAz(d) THEN x_spher[PairOf(d)].zen
        ELSE x_spher[PairOf(d)].az]

\* patch back together the cartesian and spherical coordinates into one array
create_x(x_cart, x_spher) ==
    [d \in 1..n |->
        IF d <= n_cart THEN x_cart[d]
        ELSE IF IsAz(d) THEN x_spher[PairOf(d)].az
        ELSE x_spher[PairOf(d)].zen]

\* x[:n_cart]
CartOf(x) == [d \in 1..n_cart |-> x[d]]

\* the spherical points of a flat vector: zen = x[n_cart+1::2],
\* az = x[n_cart::2], then fill_from_spher
SpherOf(x) ==
    [j \in 1..n_spher |->
        fill_from_spher([ZeroSpher EXCEPT !.zen = x[n_cart + 2 * j],
                                          !.az = x[n_cart + 2 * j - 1]])]

(***************************************************************************)
(* The quasi-random start points and the prior transform.                  *)
(***************************************************************************)
RECURSIVE VdC(_)
\* radical inverse of i in base 2: 1/2, 1/4, 3/4, 1/8, 5/8, ...
VdC(i) ==
    IF i = 0 THEN RZero
    ELSE RAdd(R(i % 2, 2), RDiv(VdC(i \div 2), RInt(2)))

\* the seed-th point of the low-discrepancy sequence in the unit cube; the
\* directional coordinates stay on the grid where the angle conversions of
\* this model are exact (azimuth a multiple of pi/2, zenith 0 or pi)
i4_sobol(seed) ==
    [d \in 1..n |->
        IF d <= n_cart THEN VdC(seed + d - 1)
        ELSE IF IsAz(d) THEN R((seed + PairOf(d) - 1) % 4, 4)
        ELSE RInt((seed + PairOf(d) - 1) % 2)]

\* prior(cube): a uniform prior per dimension, [-W, W] for the linear
\* dimensions, [0, 2*pi] for an azimuth and [0, pi] for a zenith
prior(cube) ==
    [d \in 1..n |->
        IF d <= n_cart
        THEN RMul(RSub(RMul(RInt(2), cube[d]), ROne), RInt(PriorHalfWidth))
        ELSE IF IsAz(d) THEN RMul(RInt(4), cube[d])
        ELSE RMul(RInt(2), cube[d])]

\* the vector x of the i-th initial individual (i = 0 .. N-1)
InitialX(up, i) ==
    LET x0 == i4_sobol(i + 1)
        param_vals == prior(x0)
    IN  [d \in 1..n |->
            IF d > n_cart THEN param_vals[d]
            ELSE IF ~up THEN param_vals[d]
            ELSE x0[d]]

\* the parameter values fun(x) hands to loglike
FunParamVals(up, x) ==
    IF up
    THEN LET pv == prior([d \in 1..n |-> IF d <= n_cart THEN x[d] ELSE RZero])
         IN  [d \in 1..n |-> IF d <= n_cart THEN pv[d] ELSE x[d]]
    ELSE x

(***************************************************************************)
(* The external evaluator get_llh: what one call can return.               *)
(***************************************************************************)
GetLlhResults ==
    [finite : {TRUE}, llh : (-MaxFx)..1] \cup {[finite |-> FALSE, llh |-> 0]}

\* np.isfinite(llh)
IsFinite(r) == r.finite

\* what get_llh can return at the i-th start point of event e: the value of
\* the event's landscape there, or a value loglike rejects.  An event is a
\* record [lo, span, shift, pegleg_idx, scalefactor]; its landscape takes
\* the values lo .. lo+span-1 periodically along the start points, and
\* get_llh returns the event's step index and scale factor with every llh.
Events ==
    {e \in [lo : 1..MaxFx, span : 1..MaxFx, shift : 0..(MaxFx - 1),
            pegleg_idx : 0..MaxPeglegIdx, scalefactor : 1..MaxScalefactor] :
        e.lo + e.span - 1 <= MaxFx /\ e.shift < e.span}

StartLlh(e, j) == -(e.lo + ((j + e.shift) % e.span))

StartResults(e, j) ==
    {r \in GetLlhResults : r.finite /\ r.llh < 0 => r.llh = StartLlh(e, j)}

\* the first assertion of loglike that fails on r, or "ok"
loglike_assert(r) ==
    IF ~IsFinite(r) THEN "LLH not finite"
    ELSE IF ~(r.llh < 0) THEN "LLH positive"
    ELSE "ok"

\* pegleg_eval(pegleg_idx=..., dt=..., const_e_loss=...): a value that the
\* step index determines
pegleg_eval(pegleg_idx) == <<"pegleg_eval", pegleg_idx>>

\* result = tuple(cube[:n_opt_params]) + (pegleg_result, scalefactor)
loglike_result(e, cube) ==
    SubSeq(cube, 1, n) \o <<pegleg_eval(e.pegleg_idx), e.scalefactor>>

\* a slip in the acceptance test: a point as bad as the worst is accepted
Improves_OrEqual(v, f, w) == v <= f[w]

\* new_fx < fx[worst_idx]
Improves(v, f, w) == v < f[w]

\* a slip in the replacement: the slot after the worst one is overwritten
Replace_NextSlot(arr, w, val) == [arr EXCEPT ![(w + 1) % N] = val]

\* arr[worst_idx] = val
Replace(arr, w, val) == [arr EXCEPT ![w] = val]

\* a slip in the callback: the newest evaluation is put in front
TraceAppend_Front(seq, v) == <<v>> \o seq

\* a slip in the callback: every evaluation is recorded twice
TraceAppend_Twice(seq, v) == Append(Append(seq, v), v)

\* param_values.append(result); log_likelihoods.append(llh)
TraceAppend(seq, v) == Append(seq, v)

(***************************************************************************)
(* numpy reductions over the objective values fx : 0..N-1 -> Int.          *)
(***************************************************************************)
Idx == 0..(N - 1)

RECURSIVE ISum(_, _)
ISum(f, S) ==
    IF S = {} THEN 0
    ELSE LET j == CHOOSE j \in S : TRUE IN f[j] + ISum(f, S \ {j})

\* np.min(f)
Min(f) == CHOOSE v \in {f[j] : j \in Idx} : \A j \in Idx : v <= f[j]
\* np.max(f)
Max(f) == CHOOSE v \in {f[j] : j \in Idx} : \A j \in Idx : v >= f[j]
\* np.argmin(f): the first index of the minimum
ArgMin(f) == CHOOSE j \in Idx : f[j] = Min(f) /\ \A m \in 0..(j - 1) : f[m] # Min(f)
\* np.argmax(f): the first index of the maximum
ArgMax(f) == CHOOSE j \in Idx : f[j] = Max(f) /\ \A m \in 0..(j - 1) : f[m] # Max(f)

\* N^2 times the population variance of f
VarTimesNSq(f) ==
    N * ISum([j \in Idx |-> f[j] * f[j]], Idx) - ISum(f, Idx) * ISum(f, Idx)

\* a slip in the threshold: np.std(f) < 1
StdBelowThreshold_One(f) == VarTimesNSq(f) < N * N

\* np.std(f) < 0.1, i.e. variance < 1/100
StdBelowThreshold(f) == 100 * VarTimesNSq(f) < N * N

(***************************************************************************)
(* The raw arrays of an event and the detector table.  Charges are floats  *)
(* that need not be finite; noise rates are in units of 5e-8 per ns.       *)
(***************************************************************************)
\* a finite float
Fin(c) == [kind |-> "fin", v |-> c]

\* the charge of one hit
Charges ==
    {Fin(c) : c \in 0..MaxCharge}
      \cup {[kind |-> q, v |-> 0] : q \in {"pinf", "ninf", "nan"}}

\* float addition
FAdd(a, b) ==
    IF a.kind = "nan" \/ b.kind = "nan" THEN [kind |-> "nan", v |-> 0]
    ELSE IF a.kind = "fin" THEN (IF b.kind = "fin" THEN Fin(a.v + b.v) ELSE b)
    ELSE IF b.kind = "fin" \/ b.kind = a.kind THEN a
    ELSE [kind |-> "nan", v |-> 0]

\* np.sum of a sequence of floats
RECURSIVE FSum(_)
FSum(s) == IF s = <<>> THEN Fin(0) ELSE FAdd(FSum(SubSeq(s, 1, Len(s) - 1)), s[Len(s)])

\* a > 0
FPositive(a) == a.kind = "pinf" \/ (a.kind = "fin" /\ a.v > 0)

\* np.isfinite(a)
FIsFinite(a) == a.kind = "fin"

\* the sd_idx of row j of the detector table (the rows are not in sd_idx order)
DomSdIdx(j) == 2 * (NumDoms - j) + 1

\* the detector table dom_info: one row per DOM, operational or not
DomInfos ==
    {d \in [0..(NumDoms - 1) ->
              [operational : BOOLEAN, sd_idx : {DomSdIdx(j) : j \in 0..(NumDoms - 1)},
               x : {0}, y : {0}, z : -NumDoms..0,
               quantum_efficiency : 0..1, noise_rate_per_ns : 0..MaxNoise]] :
        \A j \in 0..(NumDoms - 1) : d[j].sd_idx = DomSdIdx(j) /\ d[j].z = -j}

\* hits_indexer: one entry [sd_idx, offset, num] per DOM that has hits, the
\* entries covering the hits array back to back
HitsIndexers ==
    UNION {
      {[e \in 1..len |->
          [sd_idx |-> sd[e], num |-> num[e],
           offset |-> LET RECURSIVE Before(_)
                          Before(m) == IF m = 0 THEN 0 ELSE num[m] + Before(m - 1)
                      IN  Before(e - 1)]] :
         sd \in {f \in [1..len -> {DomSdIdx(j) : j \in 0..(NumDoms - 1)}] :
                    \A a, b \in 1..len : a # b => f[a] # f[b]},
         num \in {g \in [1..len -> 1..MaxHits] :
                    LET RECURSIVE Tot(_)
                        Tot(m) == IF m = 0 THEN 0 ELSE g[m] + Tot(m - 1)
                    IN  Tot(len) <= MaxHits}} :
      len \in 0..NumDoms}

\* the number of hits hits_indexer hi covers
NumHits(hi) == IF hi = <<>> THEN 0 ELSE hi[Len(hi)].offset + hi[Len(hi)].num

\* the hits arrays that go with hits_indexer hi, in order of arrival
HitsOf(hi) ==
    {h \in [1..NumHits(hi) -> [time : 1..MaxHits, charge : Charges]] :
        \A a \in 1..NumHits(hi) : h[a].time = a}

(***************************************************************************)
(* generate_loglike: the per-sensor and per-hit arrays of the event.       *)
(* Python indices are kept as they are (0-based, ranges half open); the    *)
(* arrays themselves are sequences, so python index j is element j + 1.    *)
(***************************************************************************)
\* sd_idx_table_indexer[sd_idx]: a value that sd_idx determines
sd_idx_table_indexer(sd_idx) == <<"table", sd_idx>>

\* dom_info[dom_info['operational']]
OperationalDoms(di) ==
    LET RECURSIVE Rows(_)
        Rows(j) ==
            IF j = NumDoms THEN <<>>
            ELSE (IF di[j].operational THEN <<di[j]>> ELSE <<>>) \o Rows(j + 1)
    IN  Rows(0)

\* hits_indexer[hits_indexer['sd_idx'] == sd_idx]
this_hits_indexer(hi, sd_idx) == SelectSeq(hi, LAMBDA e : e.sd_idx = sd_idx)

\* a slip in the slice: hits[:stop]['charge']
SliceCharges_FromZero(h, start, stop) ==
    LET last == IF stop > Len(h) THEN Len(h) ELSE stop
    IN  [a \in 1..last |-> h[a].charge]

\* hits[start:stop]['charge']
SliceCharges(h, start, stop) ==
    LET last == IF stop > Len(h) THEN Len(h) ELSE stop
    IN  [a \in 1..(IF last > start THEN last - start ELSE 0) |-> h[start + a].charge]

\* a slip in the default: a sensor without hits keeps the range of the
\* whole hits array
NoHitsRow_WholeRange(row, h) ==
    [hits_start_idx |-> 0, hits_stop_idx |-> Len(h), total_observed_charge |-> Fin(0)]

\* the hit range and charge of a sensor that has no entry in hits_indexer
NoHitsRow(row, h) ==
    [hits_start_idx |-> 0, hits_stop_idx |-> 0, total_observed_charge |-> Fin(0)]

\* the row of event_dom_info for one operational DOM (one pass of the loop
\* at reco.py:378, without the write to event_hit_info)
EventDomRow(this_dom_info, hi, h) ==
    LET sd_idx == this_dom_info.sd_idx
        thi == this_hits_indexer(hi, sd_idx)
        start == thi[1].offset
        stop == start + thi[1].num
        range == IF Len(thi) = 0
                 THEN NoHitsRow(this_dom_info, h)
                 ELSE [hits_start_idx |-> start, hits_stop_idx |-> stop,
                       total_observed_charge |-> FSum(SliceCharges(h, start, stop))]
    IN  [sd_idx |-> sd_idx, x |-> this_dom_info.x, y |-> this_dom_info.y,
         z |-> this_dom_info.z,
         quantum_efficiency |-> this_dom_info.quantum_efficiency,
         noise_rate_per_ns |-> this_dom_info.noise_rate_per_ns,
         table_idx |-> sd_idx_table_indexer(sd_idx),
         hits_start_idx |-> range.hits_start_idx,
         hits_stop_idx |-> range.hits_stop_idx,
         total_observed_charge |-> range.total_observed_charge]

\* a slip in the back pointer: the row of the detector table is stored
\* instead of the index among the operational DOMs
BackPointer_TableRow(di, dom_idx) ==
    CHOOSE j \in 0..(NumDoms - 1) :
        di[j].operational
          /\ Cardinality({m \in 0..(j - 1) : di[m].operational}) = dom_idx

\* event_hit_info[start:stop]['event_dom_idx'] = dom_idx
BackPointer(di, dom_idx) == dom_idx

\* event_hit_info after the loop at reco.py:378 has run from dom_idx on
RECURSIVE FillEventHitInfo(_, _, _, _)
FillEventHitInfo(ehi, di, hi, dom_idx) ==
    LET op == OperationalDoms(di)
    IN  IF dom_idx >= Len(op) THEN ehi
        ELSE LET thi == this_hits_indexer(hi, op[dom_idx + 1].sd_idx)
                 start == thi[1].offset
                 stop == start + thi[1].num
                 filled ==
                    IF Len(thi) = 0 THEN ehi
                    ELSE [a \in 1..Len(ehi) |->
                            IF start < a /\ a <= stop
                            THEN [ehi[a] EXCEPT !.event_dom_idx = BackPointer(di, dom_idx)]
                            ELSE ehi[a]]
             IN  FillEventHitInfo(filled, di, hi, dom_idx + 1)

\* a slip in the floor: only a noise rate of zero is raised
NoiseFloored_ZeroOnly(noise) == IF noise = 0 THEN NoiseFloor ELSE noise

\* mask = noise < 1e-7; noise[mask] = 1e-7
NoiseFloored(noise) == IF noise < NoiseFloor THEN NoiseFloor ELSE noise

\* event_dom_info as generate_loglike leaves it
BuildEventDomInfo(di, hi, h) ==
    LET op == OperationalDoms(di)
    IN  [j \in 1..Len(op) |->
            LET row == EventDomRow(op[j], hi, h)
            IN  [row EXCEPT !.noise_rate_per_ns = NoiseFloored(row.noise_rate_per_ns)]]

\* event_hit_info as generate_loglike leaves it
BuildEventHitInfo(di, hi, h) ==
    FillEventHitInfo([a \in 1..Len(h) |->
                        [time |-> h[a].time, charge |-> h[a].charge, event_dom_idx |-> 0]],
                     di, hi, 0)

\* np.sum(event_dom_info['total_observed_charge'])
TotalCharge(edi) == FSum([j \in 1..Len(edi) |-> edi[j].total_observed_charge])

\* a slip in the charge test: only a non-finite total charge is rejected
generate_loglike_assert_FiniteOnly(edi) ==
    IF Len(edi) = 0 THEN "ValueError"
    ELSE IF \E j \in 1..Len(edi) : edi[j].quantum_efficiency <= 0 THEN "negative QE"
    ELSE IF ~FIsFinite(TotalCharge(edi)) THEN "inf charge"
    ELSE "ok"

\* the first statement of generate_loglike that raises on edi, or "ok":
\* np.min of an empty array, then the three assertions
generate_loglike_assert(edi) ==
    IF Len(edi) = 0 THEN "ValueError"
    ELSE IF \E j \in 1..Len(edi) : edi[j].quantum_efficiency <= 0 THEN "negative QE"
    ELSE IF ~FPositive(TotalCharge(edi)) THEN "no charge"
    ELSE IF ~FIsFinite(TotalCharge(edi)) THEN "inf charge"
    ELSE "ok"

(***************************************************************************)
(* State of one run of run_mymini and of the loglike closure it calls.     *)
(***************************************************************************)
VARIABLES
    event,                   \* the event being reconstructed
    use_priors,              \* the mode switch
    pc,                      \* "generate_loglike", "init", "loop", "returned" or "raised"
    i,                       \* index of the initial-population loop
    S_cart, S_spher, fx,     \* the population
    best_llh, no_improvement_counter,
    k,                       \* iterations of the main loop started so far
    simplex_success, failure,
    worst_idx, best_idx, choice,          \* locals of the last iteration
    centroid_cart, centroid_spher,
    new_x_cart, new_x_spher, outside, new_fx,
    param_values, log_likelihoods,        \* the evaluation trace
    settings,                \* the value run_mymini returned
    error,                   \* message of the assertion that was raised
    stdout,                  \* last stopping message printed
    dom_info, hits, hits_indexer,         \* the detector table and the event's raw arrays
    event_dom_info, event_hit_info,       \* the arrays generate_loglike builds
    llh, get_llh_calls,      \* what get_llh returned last, and how often it was called
    dim_names, llhp,         \* the hypothesis' dimensions and the assembled records
    method,                  \* the argument of run
    events_iterator,         \* the events run has not started yet
    backends,                \* the optimizers run for the current event, in order
    opt_meta,                \* the metadata written so far, one entry per event
    string, om, sd_idx,      \* arguments and result of get_sd_idx
    string_om_pair,          \* result of get_string_om_pair
    data, delete_while_filling,           \* the arguments of construct_arrays
    scalar_dtypes, vector_dtypes,         \* its size information,
    scalar_arrays, vector_arrays,         \* its arrays
    frame_idx                \* and the frame its filling loop is at

vars ==
    <<event, use_priors, pc, i, S_cart, S_spher, fx, best_llh, no_improvement_counter,
      k, simplex_success, failure, worst_idx, best_idx, choice,
      centroid_cart, centroid_spher, new_x_cart,
      new_x_spher, outside, new_fx, param_values, log_likelihoods, settings,
      error, stdout, dom_info, hits, hits_indexer, event_dom_info, event_hit_info,
      llh, get_llh_calls, dim_names, llhp, method, events_iterator, backends,
      opt_meta, string, om, sd_idx, string_om_pair, data, delete_while_filling,
      scalar_dtypes, vector_dtypes, scalar_arrays, vector_arrays, frame_idx>>

indexing == <<string, om, sd_idx, string_om_pair>>
columnar ==
    <<data, delete_while_filling, scalar_dtypes, vector_dtypes, scalar_arrays,
      vector_arrays, frame_idx>>
batch == <<method, events_iterator, backends, opt_meta>>
inputs == <<dom_info, hits, hits_indexer>>
built == <<event_dom_info, event_hit_info>>
call == <<llh, get_llh_calls>>
assembled == <<dim_names, llhp>>
population == <<S_cart, S_spher, fx>>
counters == <<best_llh, no_improvement_counter, k, simplex_success, failure>>
locals ==
    <<worst_idx, best_idx, choice, centroid_cart, centroid_spher,
      new_x_cart, new_x_spher, outside, new_fx>>
trace == <<param_values, log_likelihoods>>

\* no index was converted and construct_arrays was not called
NoTables ==
    /\ string = 1 /\ om = 1 /\ sd_idx = 0 /\ string_om_pair = <<1, 1>>
    /\ data = <<>>
    /\ delete_while_filling = FALSE
    /\ scalar_dtypes = {}
    /\ vector_dtypes = <<>>
    /\ scalar_arrays = <<>>
    /\ vector_arrays = <<>>
    /\ frame_idx = 0

\* run was called with method mymini for the one event that is reconstructed
SingleEvent ==
    /\ method = "mymini"
    /\ events_iterator = <<>>
    /\ backends = <<"run_mymini">>
    /\ opt_meta = <<>>

\* the events of the optimizer runs: every DOM operational and efficient
\* with its noise at the floor, and no hit or one hit on the first DOM of
\* the table
RunDomInfos ==
    {d \in DomInfos :
        \A j \in 0..(NumDoms - 1) :
            /\ d[j].operational
            /\ d[j].quantum_efficiency = 1
            /\ d[j].noise_rate_per_ns = NoiseFloor}

RunHitsIndexers == {<<>>, <<[sd_idx |-> DomSdIdx(0), num |-> 1, offset |-> 0]>>}

\* no value yet
NoLlh == [finite |-> TRUE, llh |-> 0]

\* the state in run before generate_loglike is called for the event, with
\* use_priors set to up
InitMode(up) ==
    /\ event \in Events
    /\ dom_info \in RunDomInfos
    /\ hits_indexer \in RunHitsIndexers
    /\ hits \in HitsOf(hits_indexer)
    /\ event_dom_info = <<>>
    /\ event_hit_info = <<>>
    /\ llh = NoLlh
    /\ get_llh_calls = 0
    /\ dim_names = <<>>
    /\ llhp = <<>>
    /\ use_priors = up
    /\ pc = "generate_loglike"
    /\ i = 0
    /\ S_cart = [j \in Idx |-> [d \in 1..n_cart |-> RZero]]
    /\ S_spher = [j \in Idx |-> [m \in 1..n_spher |-> ZeroSpher]]
    /\ fx = [j \in Idx |-> 0]
    /\ best_llh = 0
    /\ no_improvement_counter = -1
    /\ k = 0
    /\ simplex_success = 0
    /\ failure = 0
    /\ worst_idx = 0
    /\ best_idx = 0
    /\ choice = <<>>
    /\ centroid_cart = [d \in 1..n_cart |-> RZero]
    /\ centroid_spher = [m \in 1..n_spher |-> ZeroSpher]
    /\ new_x_cart = [d \in 1..n_cart |-> RZero]
    /\ new_x_spher = [m \in 1..n_spher |-> ZeroSpher]
    /\ outside = FALSE
    /\ new_fx = 0
    /\ param_values = <<>>
    /\ log_likelihoods = <<>>
    /\ settings = <<>>
    /\ error = ""
    /\ stdout = ""
    /\ SingleEvent
    /\ NoTables

\* the source as written: use_priors = False
Init == InitMode(FALSE)

\* the bounded (unit cube) mode: use_priors = True
InitBounded == InitMode(TRUE)

(***************************************************************************)
(* generate_loglike, then the entry into run_mymini (assert N > n + 1).    *)
(***************************************************************************)
GenerateLoglike ==
    /\ pc = "generate_loglike"
    /\ event_dom_info' = BuildEventDomInfo(dom_info, hits_indexer, hits)
    /\ event_hit_info' = BuildEventHitInfo(dom_info, hits_indexer, hits)
    /\ IF generate_loglike_assert(event_dom_info') # "ok"
       THEN /\ pc' = "raised"
            /\ error' = generate_loglike_assert(event_dom_info')
       ELSE /\ pc' = IF N > n + 1 THEN "init" ELSE "raised"
            /\ error' = IF N > n + 1 THEN "" ELSE "AssertionError"
    /\ UNCHANGED <<indexing, columnar, batch, event, use_priors, i, population, counters, locals, trace,
                   settings, stdout, inputs, call, assembled>>

(***************************************************************************)
(* Initial population: one step per individual.                            *)
(***************************************************************************)
InitEval ==
    /\ pc = "init"
    /\ i < N
    /\ \E r \in StartResults(event, i) :
        LET x == InitialX(use_priors, i)
            cart == [S_cart EXCEPT ![i] = CartOf(x)]
            spher == [S_spher EXCEPT ![i] = SpherOf(x)]
        IN  /\ S_cart' = cart
            /\ S_spher' = spher
            /\ llh' = r
            /\ get_llh_calls' = get_llh_calls + 1
            /\ IF loglike_assert(r) = "ok"
               THEN /\ param_values' = TraceAppend(param_values,
                                        loglike_result(event, FunParamVals(use_priors, x)))
                    /\ log_likelihoods' = TraceAppend(log_likelihoods, r.llh)
                    /\ fx' = [fx EXCEPT ![i] = -r.llh]
                    /\ i' = i + 1
                    /\ pc' = IF i + 1 = N THEN "loop" ELSE "init"
                    /\ best_llh' = IF i + 1 = N THEN Min(fx') ELSE best_llh
                    /\ error' = error
               ELSE /\ pc' = "raised"
                    /\ error' = loglike_assert(r)
                    /\ UNCHANGED <<param_values, log_likelihoods, fx, i, best_llh>>
    /\ UNCHANGED <<indexing, columnar, batch, event, use_priors, no_improvement_counter, k, simplex_success,
                   failure, locals, settings, stdout, inputs, built, assembled>>

(***************************************************************************)
(* The main loop.                                                          *)
(***************************************************************************)
\* rand.choice(N-1, n, replace=False): n distinct draws from 0..N-2.  Only
\* the set of the first n-1 draws and the last draw are ever used, so the
\* first n-1 draws are listed in increasing order.
RawChoices ==
    {c \in [1..n -> 0..(N - 2)] :
        /\ \A a, b \in 1..n : a # b => c[a] # c[b]
        /\ \A a \in 1..(n - 2) : c[a] < c[a + 1]}

\* a slip in the selection: the draws are not moved past the best index
ShiftChoice_None(c, b) == c

\* choice[choice >= best_idx] += 1
ShiftChoice(c, b) == [a \in 1..n |-> IF c[a] >= b THEN c[a] + 1 ELSE c[a]]

\* choice[:-1] as a set of indices
ChoiceHead(c) == {c[a] : a \in 1..(n - 1)}
\* choice[-1]
ChoiceLast(c) == c[n]

\* (np.sum(S_cart[choice[:-1]], axis=0) + S_cart[best_idx]) / n
CentroidCart(cart, c, b) ==
    [d \in 1..n_cart |->
        RDiv(RAdd(RSum([j \in Idx |-> cart[j][d]], ChoiceHead(c)), cart[b][d]),
             RInt(n))]

\* 2*centroid_cart - S_cart[choice[-1]]
ReflectCart(centroid, old) ==
    [d \in 1..n_cart |-> RSub(RMul(RInt(2), centroid[d]), old[d])]

\* the averaged unit vectors of the selected points, then fill_from_cart
CentroidSpher(spher, c, b) ==
    [m \in 1..n_spher |->
        LET avg(field) ==
                RDiv(RAdd(RSum([j \in Idx |-> spher[j][m][field]], ChoiceHead(c)),
                          spher[b][m][field]),
                     RInt(n))
        IN  fill_from_cart([ZeroSpher EXCEPT !.x = avg("x"), !.y = avg("y"),
                                             !.z = avg("z")])]

\* reflect(S_spher[choice[-1]], centroid_spher, new_x_spher)
ReflectSpher(old, centroid) ==
    [m \in 1..n_spher |-> reflect(old[m], centroid[m], ZeroSpher)]

\* a slip in the bounds check: only the upper bound is tested
Outside_UpperOnly(up, cart) ==
    IF up THEN \E d \in 1..n_cart : RLt(ROne, cart[d]) ELSE FALSE

\* a slip in the bounds check: it is made in both modes
Outside_AnyMode(up, cart) ==
    \E d \in 1..n_cart : RLt(cart[d], RZero) \/ RLt(ROne, cart[d])

\* np.any(new_x_cart < 0) or np.any(new_x_cart > 1), when use_priors
Outside(up, cart) ==
    IF up
    THEN \E d \in 1..n_cart : RLt(cart[d], RZero) \/ RLt(ROne, cart[d])
    ELSE FALSE

\* a slip in the loop head: no iteration cap
LoopContinues_NoCap ==
    /\ pc = "loop"
    /\ ~StdBelowThreshold(fx)
    /\ ~(no_improvement_counter > MaxNoImprovement)

\* the loop is entered for iteration k and neither break condition holds
LoopContinues ==
    /\ pc = "loop"
    /\ k < MaxIter
    /\ ~StdBelowThreshold(fx)
    /\ ~(no_improvement_counter > MaxNoImprovement)

\* one pass through the body of the main loop.  When the assertion in
\* loglike fails the exception leaves run_mymini and its frame is gone: only
\* pc and error record it.
Iterate ==
    /\ LoopContinues
    /\ \E raw \in RawChoices :
       \E w \in {ArgMax(fx)}, b \in {ArgMin(fx)}, new_best_llh \in {Min(fx)} :
       \E c \in {ShiftChoice(raw, b)} :
       \E cc \in {CentroidCart(S_cart, c, b)}, cs \in {CentroidSpher(S_spher, c, b)} :
       \E nc \in {ReflectCart(cc, S_cart[ChoiceLast(c)])},
          ns \in {ReflectSpher(S_spher[ChoiceLast(c)], cs)} :
       \E out \in {Outside(use_priors, nc)} :
        LET Body ==
                /\ best_llh' = IF new_best_llh < best_llh THEN new_best_llh ELSE best_llh
                /\ no_improvement_counter' =
                       IF new_best_llh < best_llh THEN 0 ELSE no_improvement_counter + 1
                /\ worst_idx' = w
                /\ best_idx' = b
                /\ choice' = c
                /\ centroid_cart' = cc
                /\ centroid_spher' = cs
                /\ new_x_cart' = nc
                /\ new_x_spher' = ns
                /\ outside' = out
                /\ k' = k + 1
                /\ UNCHANGED <<pc, error>>
        IN  IF out
            THEN \* rejected without evaluating
                 /\ Body
                 /\ failure' = failure + 1
                 /\ UNCHANGED <<population, trace, new_fx, simplex_success, call>>
            ELSE \E x \in {FunParamVals(use_priors, create_x(nc, ns))} :
                 \E r \in GetLlhResults :
                 IF loglike_assert(r) # "ok"
                 THEN /\ pc' = "raised"
                      /\ error' = loglike_assert(r)
                      /\ llh' = r
                      /\ get_llh_calls' = get_llh_calls + 1
                      /\ UNCHANGED <<population, counters, locals, trace>>
                 ELSE /\ Body
                      /\ llh' = r
                      /\ get_llh_calls' = get_llh_calls + 1
                      /\ param_values' = TraceAppend(param_values, loglike_result(event, x))
                      /\ log_likelihoods' = TraceAppend(log_likelihoods, r.llh)
                      /\ new_fx' = -r.llh
                      /\ IF Improves(-r.llh, fx, w)
                         THEN \* found better point
                              /\ S_cart' = Replace(S_cart, w, nc)
                              /\ S_spher' = Replace(S_spher, w, ns)
                              /\ fx' = Replace(fx, w, -r.llh)
                              /\ simplex_success' = simplex_success + 1
                              /\ UNCHANGED failure
                         ELSE /\ failure' = failure + 1
                              /\ UNCHANGED <<population, simplex_success>>
    /\ UNCHANGED <<indexing, columnar, batch, event, use_priors, i, settings, stdout, inputs, built, assembled>>

\* return OrderedDict()
Return(msg) ==
    /\ pc' = "returned"
    /\ settings' = <<>>
    /\ stdout' = msg
    /\ UNCHANGED <<indexing, columnar, batch, event, use_priors, i, population, counters, locals, trace, error,
                   inputs, built, call, assembled>>

\* if np.std(fx) < 0.1: break
StopStd ==
    /\ pc = "loop"
    /\ k < MaxIter
    /\ StdBelowThreshold(fx)
    /\ Return("std below threshold, stopping.")

\* a slip in the stagnation test: the limit itself already stops the loop
StopNoImprovement_AtLimit ==
    /\ pc = "loop"
    /\ k < MaxIter
    /\ ~StdBelowThreshold(fx)
    /\ no_improvement_counter >= MaxNoImprovement
    /\ Return("no improvement found, stopping.")

\* if no_improvement_counter > 2000: break
StopNoImprovement ==
    /\ pc = "loop"
    /\ k < MaxIter
    /\ ~StdBelowThreshold(fx)
    /\ no_improvement_counter > MaxNoImprovement
    /\ Return("no improvement found, stopping.")

\* the range of the for loop is exhausted
StopCap ==
    /\ pc = "loop"
    /\ k = MaxIter
    /\ Return(stdout)

Next == GenerateLoglike \/ InitEval \/ Iterate \/ StopStd \/ StopNoImprovement \/ StopCap

Spec == Init /\ [][Next]_vars

\* both settings of the mode switch
SpecModes == (Init \/ InitBounded) /\ [][Next]_vars

(***************************************************************************)
(* generate_loglike on its own, for every detector table and every event   *)
(* within the bounds.                                                      *)
(***************************************************************************)
InitBuild ==
    /\ event \in {e \in Events : e.lo = 1 /\ e.span = 1 /\ e.pegleg_idx = 0
                                  /\ e.scalefactor = 1}
    /\ dom_info \in DomInfos
    /\ hits_indexer \in HitsIndexers
    /\ hits \in HitsOf(hits_indexer)
    /\ event_dom_info = <<>>
    /\ event_hit_info = <<>>
    /\ llh = NoLlh
    /\ get_llh_calls = 0
    /\ dim_names = <<>>
    /\ llhp = <<>>
    /\ use_priors = FALSE
    /\ pc = "generate_loglike"
    /\ i = 0
    /\ S_cart = [j \in Idx |-> [d \in 1..n_cart |-> RZero]]
    /\ S_spher = [j \in Idx |-> [m \in 1..n_spher |-> ZeroSpher]]
    /\ fx = [j \in Idx |-> 0]
    /\ best_llh = 0
    /\ no_improvement_counter = -1
    /\ k = 0
    /\ simplex_success = 0
    /\ failure = 0
    /\ worst_idx = 0
    /\ best_idx = 0
    /\ choice = <<>>
    /\ centroid_cart = [d \in 1..n_cart |-> RZero]
    /\ centroid_spher = [m \in 1..n_spher |-> ZeroSpher]
    /\ new_x_cart = [d \in 1..n_cart |-> RZero]
    /\ new_x_spher = [m \in 1..n_spher |-> ZeroSpher]
    /\ outside = FALSE
    /\ new_fx = 0
    /\ param_values = <<>>
    /\ log_likelihoods = <<>>
    /\ settings = <<>>
    /\ error = ""
    /\ stdout = ""
    /\ SingleEvent
    /\ NoTables

SpecBuild == InitBuild /\ [][GenerateLoglike]_vars

(***************************************************************************)
(* Assembling the result of one event (run, after the optimizer returned). *)
(* The records are functions from field names to values; the values of a  *)
(* record are small naturals, which float32 holds exactly.                 *)
(***************************************************************************)

MaxParam == 1
MaxRecords == 1

\* the dimensions a hypothesis may have, in hypo_handler's order
HypoParamNames ==
    <<"track_zenith", "track_azimuth", "cascade_zenith", "cascade_azimuth",
      "cascade_d_zenith", "cascade_d_azimuth", "track_energy", "cascade_energy">>

RECURSIVE PickNames(_, _)
PickNames(S, j) ==
    IF j > Len(HypoParamNames) THEN <<>>
    ELSE (IF j \in S THEN <<HypoParamNames[j]>> ELSE <<>>) \o PickNames(S, j + 1)

\* every list of dimensions hypo_handler.all_param_names can be
AllParamNames == {PickNames(S, 1) : S \in SUBSET (1..Len(HypoParamNames))}

Has(names, f) == \E j \in 1..Len(names) : names[j] = f

derived_dim_names(dn) ==
    <<"energy", "azimuth", "zenith">>
      \o (IF Has(dn, "cascade_d_zenith") /\ Has(dn, "cascade_d_azimuth")
          THEN <<"cascade_zenith", "cascade_azimuth">> ELSE <<>>)

all_dim_names(dn) == dn \o derived_dim_names(dn)

\* the field names of the record type
llhp_t(dn) == <<"llh">> \o all_dim_names(dn)

Fields(dn) == {llhp_t(dn)[j] : j \in 1..Len(llhp_t(dn))}

\* np.zeros, then llhp['llh'] = log_likelihoods and llhp[dim_names] = param_values
FilledRecord(dn, pv, ll) ==
    [f \in Fields(dn) |->
        IF f = "llh" THEN ll
        ELSE IF Has(dn, f) THEN pv[CHOOSE j \in 1..Len(dn) : dn[j] = f]
        ELSE 0]

AddEnergy_TrackOnly(dn, rec) ==
    IF Has(dn, "track_energy")
    THEN [rec EXCEPT !["energy"] = @ + rec["track_energy"]]
    ELSE rec

\* the derived dimension energy
AddEnergy(dn, rec) ==
    LET r1 == IF Has(dn, "track_energy")
              THEN [rec EXCEPT !["energy"] = @ + rec["track_energy"]]
              ELSE rec
    IN  IF Has(dn, "cascade_energy")
        THEN [r1 EXCEPT !["energy"] = @ + r1["cascade_energy"]]
        ELSE r1

\* retro's rotate_point and add_vectors, known here by their arguments only
rotate_point(out, d_zen, d_az, zen, az) == <<"rotate_point", out, d_zen, d_az, zen, az>>

add_vectors(out, r1, zen1, az1, r2, zen2, az2) ==
    <<"add_vectors", out, r1, zen1, az1, r2, zen2, az2>>

\* the cascade angles from the delta angles
RotateCascade(dn, rec) ==
    IF Has(dn, "cascade_d_zenith") /\ Has(dn, "cascade_d_azimuth")
    THEN [rec EXCEPT
            !["cascade_zenith"] =
                rotate_point("zenith", rec["cascade_d_zenith"], rec["cascade_d_azimuth"],
                             rec["track_zenith"], rec["track_azimuth"]),
            !["cascade_azimuth"] =
                rotate_point("azimuth", rec["cascade_d_zenith"], rec["cascade_d_azimuth"],
                             rec["track_zenith"], rec["track_azimuth"])]
    ELSE rec

CombineAngles_Swapped(dn, rec) ==
    [rec EXCEPT !["zenith"] = IF Has(dn, "track_azimuth") THEN rec["track_azimuth"]
                              ELSE IF Has(dn, "cascade_azimuth") THEN rec["cascade_azimuth"]
                              ELSE 0,
                !["azimuth"] = IF Has(dn, "track_zenith") THEN rec["track_zenith"]
                               ELSE IF Has(dn, "cascade_zenith") THEN rec["cascade_zenith"]
                               ELSE 0]

\* the combined zenith and azimuth
CombineAngles(dn, rec) ==
    LET adn == all_dim_names(dn)
    IN  IF Has(adn, "track_zenith") /\ Has(adn, "track_azimuth")
        THEN IF Has(adn, "cascade_zenith") /\ Has(adn, "cascade_azimuth")
             THEN [rec EXCEPT
                     !["zenith"] =
                         add_vectors("zenith",
                                     rec["track_energy"], rec["track_zenith"],
                                     rec["track_azimuth"], rec["cascade_energy"],
                                     rec["cascade_zenith"], rec["cascade_azimuth"]),
                     !["azimuth"] =
                         add_vectors("azimuth",
                                     rec["track_energy"], rec["track_zenith"],
                                     rec["track_azimuth"], rec["cascade_energy"],
                                     rec["cascade_zenith"], rec["cascade_azimuth"])]
             ELSE [rec EXCEPT !["zenith"] = rec["track_zenith"],
                              !["azimuth"] = rec["track_azimuth"]]
        ELSE IF Has(adn, "cascade_zenith") /\ Has(adn, "cascade_azimuth")
             THEN [rec EXCEPT !["zenith"] = rec["cascade_zenith"],
                              !["azimuth"] = rec["cascade_azimuth"]]
             ELSE rec

\* what numpy raises while the records are assembled: a field name that
\* occurs twice in the record type, or a field that is read but not there
AssembleError(dn) ==
    LET adn == all_dim_names(dn)
    IN  IF \E a, b \in 1..Len(llhp_t(dn)) : a # b /\ llhp_t(dn)[a] = llhp_t(dn)[b]
        THEN "ValueError"
        ELSE IF /\ Has(dn, "cascade_d_zenith") /\ Has(dn, "cascade_d_azimuth")
                /\ ~(Has(dn, "track_zenith") /\ Has(dn, "track_azimuth"))
        THEN "ValueError"
        ELSE IF /\ Has(adn, "track_zenith") /\ Has(adn, "track_azimuth")
                /\ Has(adn, "cascade_zenith") /\ Has(adn, "cascade_azimuth")
                /\ ~(Has(dn, "track_energy") /\ Has(dn, "cascade_energy"))
        THEN "ValueError"
        ELSE "ok"

AssembleRecord(dn, pv, ll) ==
    CombineAngles(dn, RotateCascade(dn, AddEnergy(dn, FilledRecord(dn, pv, ll))))

\* the state in which run_mymini has not been entered
MinimizerIdle ==
    /\ i = 0
    /\ S_cart = [j \in Idx |-> [d \in 1..n_cart |-> RZero]]
    /\ S_spher = [j \in Idx |-> [m \in 1..n_spher |-> ZeroSpher]]
    /\ fx = [j \in Idx |-> 0]
    /\ best_llh = 0
    /\ no_improvement_counter = -1
    /\ k = 0
    /\ simplex_success = 0
    /\ failure = 0
    /\ worst_idx = 0
    /\ best_idx = 0
    /\ choice = <<>>
    /\ centroid_cart = [d \in 1..n_cart |-> RZero]
    /\ centroid_spher = [m \in 1..n_spher |-> ZeroSpher]
    /\ new_x_cart = [d \in 1..n_cart |-> RZero]
    /\ new_x_spher = [m \in 1..n_spher |-> ZeroSpher]
    /\ outside = FALSE
    /\ new_fx = 0

\* the state of run after the optimizer returned, for every hypothesis and
\* every trace within the bounds
InitAssemble ==
    /\ event \in {e \in Events : e.lo = 1 /\ e.span = 1 /\ e.pegleg_idx = 0
                                  /\ e.scalefactor = 1}
    /\ dom_info \in RunDomInfos
    /\ hits_indexer = <<>>
    /\ hits = <<>>
    /\ event_dom_info = <<>>
    /\ event_hit_info = <<>>
    /\ llh = NoLlh
    /\ get_llh_calls = 0
    /\ dim_names \in AllParamNames
    /\ \E len \in 1..MaxRecords, pv \in [1..Len(dim_names) -> 0..MaxParam] :
          \* record r is the first record moved by r - 1 in every dimension
          /\ param_values = [r \in 1..len |-> [j \in 1..Len(dim_names) |-> pv[j] + r - 1]]
          /\ log_likelihoods = [r \in 1..len |-> -r]
    /\ llhp = <<>>
    /\ use_priors = FALSE
    /\ pc = "returned"
    /\ MinimizerIdle
    /\ settings = <<>>
    /\ error = ""
    /\ stdout = ""
    /\ SingleEvent
    /\ NoTables

\* run, lines 183-219: the records of the event
Assemble ==
    /\ pc = "returned"
    /\ IF AssembleError(dim_names) # "ok"
       THEN /\ pc' = "raised"
            /\ error' = AssembleError(dim_names)
            /\ llhp' = llhp
       ELSE /\ pc' = "assembled"
            /\ error' = error
            /\ llhp' = [r \in 1..Len(param_values) |->
                          AssembleRecord(dim_names, param_values[r], log_likelihoods[r])]
    /\ UNCHANGED <<indexing, columnar, batch, event, use_priors, i, population, counters, locals, trace,
                   settings, stdout, inputs, built, call, dim_names>>

SpecAssemble == InitAssemble /\ [][Assemble]_vars

(***************************************************************************)
(* The geometry of one iteration on its own (run_mymini, lines 756-766):   *)
(* the centroid of the selected points and the reflection through it, for  *)
(* every selection of axis directions whose average lies on an axis.  The  *)
(* linear reflection is computed here as floating point computes it, with  *)
(* a significand of MantissaBits bits, on integer values.                  *)
(***************************************************************************)

MantissaBits == 3
MaxCart == 8

RECURSIVE Quantum(_)
\* the spacing of the floating point numbers around the magnitude a
Quantum(a) == IF a < 2 ^ MantissaBits THEN 1 ELSE 2 * Quantum(a \div 2)

\* round to nearest, ties to even
FlRound(x) ==
    LET a == Abs(x)
        q == Quantum(a)
        m == a \div q
        rem == a - m * q
        up == 2 * rem > q \/ (2 * rem = q /\ m % 2 = 1)
        r == IF up THEN (m + 1) * q ELSE m * q
    IN  IF x < 0 THEN -r ELSE r

\* the floating point numbers among 0..MaxCart
FloatValues == {v \in 0..MaxCart : FlRound(v) = v}

ReflectCartFloat_Plus(centroid, old) ==
    [d \in 1..n_cart |-> RInt(FlRound(2 * centroid[d][1] + old[d][1]))]

\* 2*centroid_cart - S_cart[choice[-1]] in floating point (2*c is exact)
ReflectCartFloat(centroid, old) ==
    [d \in 1..n_cart |-> RInt(FlRound(2 * centroid[d][1] - old[d][1]))]

\* the six axis directions, as rows filled from their angles
AxisDirs ==
    {fill_from_spher([ZeroSpher EXCEPT !.zen = RInt(a[1]), !.az = RInt(a[2])]) :
        a \in {<<0, 0>>, <<2, 0>>, <<1, 0>>, <<1, 1>>, <<1, 2>>, <<1, 3>>}}

\* the sum of the unit vectors of rows 0..n-1 has at most one non-zero
\* coordinate
SumOnAxis(dirs) ==
    LET sum(field) == RSum([j \in 0..(n - 1) |-> dirs[j][field]], 0..(n - 1))
    IN  Cardinality({f \in {"x", "y", "z"} : sum(f) # RZero}) <= 1

\* the best point is row 0, rows 1..n-1 are choice[:-1] and row n is
\* choice[-1], the point that is reflected
InitGeom ==
    /\ event \in {e \in Events : e.lo = 1 /\ e.span = 1 /\ e.pegleg_idx = 0
                                  /\ e.scalefactor = 1}
    /\ dom_info \in RunDomInfos
    /\ hits_indexer = <<>>
    /\ hits = <<>>
    /\ event_dom_info = <<>>
    /\ event_hit_info = <<>>
    /\ llh = NoLlh
    /\ get_llh_calls = 0
    /\ dim_names = <<>>
    /\ llhp = <<>>
    /\ use_priors = FALSE
    /\ pc = "geom"
    /\ i = N
    /\ \E c \in FloatValues, old \in FloatValues :
          S_cart = [j \in Idx |-> [d \in 1..n_cart |->
                        RInt(IF j < n THEN c ELSE IF j = n THEN old ELSE 0)]]
    /\ \E dirs \in {ds \in [0..n -> AxisDirs] : SumOnAxis(ds)} :
          S_spher = [j \in Idx |-> [m \in 1..n_spher |->
                        IF j <= n THEN dirs[j] ELSE fill_from_spher(ZeroSpher)]]
    /\ fx = [j \in Idx |-> 0]
    /\ best_llh = 0
    /\ no_improvement_counter = -1
    /\ k = 0
    /\ simplex_success = 0
    /\ failure = 0
    /\ worst_idx = 0
    /\ best_idx = 0
    /\ choice = [a \in 1..n |-> a]
    /\ centroid_cart = [d \in 1..n_cart |-> RZero]
    /\ centroid_spher = [m \in 1..n_spher |-> ZeroSpher]
    /\ new_x_cart = [d \in 1..n_cart |-> RZero]
    /\ new_x_spher = [m \in 1..n_spher |-> ZeroSpher]
    /\ outside = FALSE
    /\ new_fx = 0
    /\ param_values = <<>>
    /\ log_likelihoods = <<>>
    /\ settings = <<>>
    /\ error = ""
    /\ stdout = ""
    /\ SingleEvent
    /\ NoTables

\* lines 756-766: the centroids and the reflected point
GeomCentroid ==
    /\ pc = "geom"
    /\ centroid_cart' = CentroidCart(S_cart, choice, best_idx)
    /\ new_x_cart' = ReflectCartFloat(centroid_cart', S_cart[ChoiceLast(choice)])
    /\ centroid_spher' = CentroidSpher(S_spher, choice, best_idx)
    /\ new_x_spher' = ReflectSpher(S_spher[ChoiceLast(choice)], centroid_spher')
    /\ k' = 1
    /\ pc' = "reflected"
    /\ UNCHANGED <<indexing, columnar, batch, event, use_priors, i, population, best_llh, no_improvement_counter,
                   simplex_success, failure, worst_idx, best_idx, choice, outside,
                   new_fx, trace, settings, error, stdout, inputs, built, call,
                   assembled>>

\* the two reflections applied once more, to the reflected point and with
\* the same centroids
GeomReflectBack ==
    /\ pc = "reflected"
    /\ new_x_cart' = ReflectCartFloat(centroid_cart, new_x_cart)
    /\ new_x_spher' = ReflectSpher(new_x_spher, centroid_spher)
    /\ k' = 2
    /\ pc' = "reflected_twice"
    /\ UNCHANGED <<indexing, columnar, batch, event, use_priors, i, population, best_llh, no_improvement_counter,
                   simplex_success, failure, worst_idx, best_idx, choice, outside,
                   new_fx, trace, settings, error, stdout, inputs, built, call,
                   assembled, centroid_cart, centroid_spher>>

NextGeom == GeomCentroid \/ GeomReflectBack

SpecGeom == InitGeom /\ [][NextGeom]_vars

(***************************************************************************)
(* The spherical centroid and the reflection for a draw of any length up   *)
(* to MaxSelected: the code averages n points, n = len(choice), and the    *)
(* average of an even number of directions can be the zero vector.         *)
(***************************************************************************)

MaxSelected == 2

\* lines 761-766 with n = Len(c): the averaged unit vectors of the best
\* point and of choice[:-1], then fill_from_cart
CentroidOfSelected(spher, c, b) ==
    [m \in 1..n_spher |->
        LET head == {c[a] : a \in 1..(Len(c) - 1)}
            avg(field) ==
                RDiv(RAdd(RSum([j \in Idx |-> spher[j][m][field]], head),
                          spher[b][m][field]),
                     RInt(Len(c)))
        IN  fill_from_cart([ZeroSpher EXCEPT !.x = avg("x"), !.y = avg("y"),
                                             !.z = avg("z")])]

\* the best point is row 0, rows 1..len-1 are choice[:-1] and row len is
\* choice[-1], for every len up to MaxSelected; the sum of the unit vectors
\* of rows 0..len-1 has at most one non-zero coordinate
InitPole ==
    /\ event \in {e \in Events : e.lo = 1 /\ e.span = 1 /\ e.pegleg_idx = 0
                                  /\ e.scalefactor = 1}
    /\ dom_info \in RunDomInfos
    /\ hits_indexer = <<>>
    /\ hits = <<>>
    /\ event_dom_info = <<>>
    /\ event_hit_info = <<>>
    /\ llh = NoLlh
    /\ get_llh_calls = 0
    /\ dim_names = <<>>
    /\ llhp = <<>>
    /\ use_priors = FALSE
    /\ pc = "pole"
    /\ i = N
    /\ S_cart = [j \in Idx |-> [d \in 1..n_cart |-> RZero]]
    /\ \E len \in 1..MaxSelected :
          /\ choice = [a \in 1..len |-> a]
          /\ \E dirs \in {ds \in [0..len -> AxisDirs] :
                           Cardinality({f \in {"x", "y", "z"} :
                               RSum([j \in 0..(len - 1) |-> ds[j][f]], 0..(len - 1))
                                   # RZero}) <= 1} :
                S_spher = [j \in Idx |-> [m \in 1..n_spher |->
                              IF j <= len THEN dirs[j] ELSE fill_from_spher(ZeroSpher)]]
    /\ fx = [j \in Idx |-> 0]
    /\ best_llh = 0
    /\ no_improvement_counter = -1
    /\ k = 0
    /\ simplex_success = 0
    /\ failure = 0
    /\ worst_idx = 0
    /\ best_idx = 0
    /\ centroid_cart = [d \in 1..n_cart |-> RZero]
    /\ centroid_spher = [m \in 1..n_spher |-> ZeroSpher]
    /\ new_x_cart = [d \in 1..n_cart |-> RZero]
    /\ new_x_spher = [m \in 1..n_spher |-> ZeroSpher]
    /\ outside = FALSE
    /\ new_fx = 0
    /\ param_values = <<>>
    /\ log_likelihoods = <<>>
    /\ settings = <<>>
    /\ error = ""
    /\ stdout = ""
    /\ SingleEvent
    /\ NoTables

\* lines 761-766: the spherical centroid
PoleCentroid ==
    /\ pc = "pole"
    /\ centroid_spher' = CentroidOfSelected(S_spher, choice, best_idx)
    /\ pc' = "centroid"
    /\ UNCHANGED <<indexing, columnar, batch, event, use_priors, i, population, counters, worst_idx,
                   best_idx, choice, centroid_cart, new_x_cart, new_x_spher, outside,
                   new_fx, trace, settings, error, stdout, inputs, built, call,
                   assembled>>

\* lines 768-769: the reflected point
PoleReflect ==
    /\ pc = "centroid"
    /\ new_x_spher' = ReflectSpher(S_spher[choice[Len(choice)]], centroid_spher)
    /\ pc' = "reflected"
    /\ UNCHANGED <<indexing, columnar, batch, event, use_priors, i, population, counters, worst_idx,
                   best_idx, choice, centroid_cart, centroid_spher, new_x_cart,
                   outside, new_fx, trace, settings, error, stdout, inputs, built,
                   call, assembled>>

NextPole == PoleCentroid \/ PoleReflect

SpecPole == InitPole /\ [][NextPole]_vars

(***************************************************************************)
(* run: the loop over the events of the iterator, with generate_loglike,   *)
(* the dispatch on the method name, the assembly of the records and the    *)
(* metadata written per event.  An optimizer is known here by the calls it *)
(* makes to loglike: any number of them up to MaxBackendCalls, then it     *)
(* returns.  An exception is handled nowhere in run, so a raise ends it.   *)
(***************************************************************************)

NumEvents == 2
MaxBackendCalls == 2

\* the method names the second if/elif chain of run knows
ChainMethods == {"truth", "mymini", "multinest", "scipy", "nlopt", "skopt"}

\* the arguments run is called with: every name the code tests and one more
Methods == {"test"} \cup ChainMethods \cup {"other"}

\* the optimizer the chain calls for a method name
BackendOf(m) ==
    CASE m = "truth" -> "run_with_truth"
      [] m = "mymini" -> "run_mymini"
      [] m = "multinest" -> "run_multinest"
      [] m = "scipy" -> "run_scipy"
      [] m = "nlopt" -> "run_nlopt"
      [] m = "skopt" -> "run_skopt"

\* the events of the iterator: no hit, or one hit of any charge on the first
\* DOM of the table
RunEvents ==
    UNION {[hits_indexer : {hi}, hits : HitsOf(hi)] : hi \in RunHitsIndexers}

\* the dimensions of the hypothesis
RunDimNames == <<"track_zenith", "track_azimuth", "track_energy", "cascade_energy">>

CanBegin_AfterRaise(p) == p \in {"next_event", "raised"}

\* the for loop of run takes the next event when the body has been
\* completed for the one before
CanBegin(p) == p = "next_event"

NewTrace_Kept(old) == old

\* param_values = [] and log_likelihoods = []
NewTrace(old) == <<>>

InitRun ==
    /\ event \in {e \in Events : e.lo = 1 /\ e.span = 1 /\ e.pegleg_idx = 0
                                  /\ e.scalefactor = 1}
    /\ dom_info \in RunDomInfos
    /\ hits_indexer = <<>>
    /\ hits = <<>>
    /\ event_dom_info = <<>>
    /\ event_hit_info = <<>>
    /\ llh = NoLlh
    /\ get_llh_calls = 0
    /\ dim_names = RunDimNames
    /\ llhp = <<>>
    /\ use_priors = FALSE
    /\ pc = "next_event"
    /\ MinimizerIdle
    /\ param_values = <<>>
    /\ log_likelihoods = <<>>
    /\ settings = <<>>
    /\ error = ""
    /\ stdout = ""
    /\ method \in Methods
    /\ events_iterator \in [1..NumEvents -> RunEvents]
    /\ backends = <<>>
    /\ opt_meta = <<>>
    /\ NoTables

\* lines 119-134: the next event, its empty trace and generate_loglike
BeginEvent ==
    /\ CanBegin(pc)
    /\ events_iterator # <<>>
    /\ events_iterator' = Tail(events_iterator)
    /\ hits_indexer' = Head(events_iterator).hits_indexer
    /\ hits' = Head(events_iterator).hits
    /\ param_values' = NewTrace(param_values)
    /\ log_likelihoods' = NewTrace(log_likelihoods)
    /\ backends' = <<>>
    /\ event_dom_info' = BuildEventDomInfo(dom_info, hits_indexer', hits')
    /\ event_hit_info' = BuildEventHitInfo(dom_info, hits_indexer', hits')
    /\ IF generate_loglike_assert(event_dom_info') # "ok"
       THEN /\ pc' = "raised"
            /\ error' = generate_loglike_assert(event_dom_info')
       ELSE /\ pc' = "dispatch"
            /\ error' = error
    /\ UNCHANGED <<indexing, columnar, event, use_priors, i, population, counters, locals, settings,
                   stdout, dom_info, call, assembled, method, opt_meta>>

\* lines 136-140: if method == 'test'
DispatchTest ==
    /\ pc = "dispatch"
    /\ IF method = "test"
       THEN /\ backends' = Append(backends, "run_test")
            /\ pc' = "backend"
       ELSE /\ backends' = backends
            /\ pc' = "dispatch_chain"
    /\ UNCHANGED <<indexing, columnar, event, use_priors, i, population, counters, locals, trace,
                   settings, error, stdout, inputs, built, call, assembled, method,
                   events_iterator, opt_meta>>

\* lines 142-179: if method == 'truth' ... elif ... else: raise ValueError
DispatchChain ==
    /\ pc = "dispatch_chain"
    /\ IF method \in ChainMethods
       THEN /\ backends' = Append(backends, BackendOf(method))
            /\ pc' = "backend"
            /\ error' = error
       ELSE /\ backends' = backends
            /\ pc' = "raised"
            /\ error' = "Unknown Method"
    /\ UNCHANGED <<indexing, columnar, event, use_priors, i, population, counters, locals, trace,
                   settings, stdout, inputs, built, call, assembled, method,
                   events_iterator, opt_meta>>

\* the running optimizer calls loglike
BackendCall ==
    /\ pc = "backend"
    /\ Len(param_values) < MaxBackendCalls
    /\ \E r \in GetLlhResults :
          /\ llh' = r
          /\ get_llh_calls' = get_llh_calls + 1
          /\ IF loglike_assert(r) # "ok"
             THEN /\ pc' = "raised"
                  /\ error' = loglike_assert(r)
                  /\ UNCHANGED trace
             ELSE /\ UNCHANGED <<pc, error>>
                  /\ param_values' =
                         TraceAppend(param_values,
                                     [d \in 1..Len(dim_names) |-> Len(param_values)])
                  /\ log_likelihoods' = TraceAppend(log_likelihoods, r.llh)
    /\ UNCHANGED <<indexing, columnar, batch, event, use_priors, i, population, counters, locals,
                   settings, stdout, inputs, built, assembled>>

\* the running optimizer returns its settings; after run_test the chain
\* follows, after every other optimizer the assembly
BackendReturn ==
    /\ pc = "backend"
    /\ settings' = <<>>
    /\ pc' = IF backends[Len(backends)] = "run_test" THEN "dispatch_chain" ELSE "returned"
    /\ UNCHANGED <<indexing, columnar, batch, event, use_priors, i, population, counters, locals, trace,
                   error, stdout, inputs, built, call, assembled>>

\* lines 226-258: the metadata of the event
SaveEvent ==
    /\ pc = "assembled"
    /\ opt_meta' = Append(opt_meta, [params |-> dim_names, settings |-> settings,
                                     num_llhp |-> Len(param_values)])
    /\ pc' = "next_event"
    /\ UNCHANGED <<indexing, columnar, event, use_priors, i, population, counters, locals, trace,
                   settings, error, stdout, inputs, built, call, assembled, method,
                   events_iterator, backends>>

\* line 262: the iterator is exhausted
EndRun ==
    /\ CanBegin(pc)
    /\ events_iterator = <<>>
    /\ pc' = "done"
    /\ stdout' = "Total script run time"
    /\ UNCHANGED <<indexing, columnar, batch, event, use_priors, i, population, counters, locals, trace,
                   settings, error, inputs, built, call, assembled>>

NextRun ==
    \/ BeginEvent \/ DispatchTest \/ DispatchChain \/ BackendCall \/ BackendReturn
    \/ Assemble \/ SaveEvent \/ EndRun

SpecRun == InitRun /\ [][NextRun]_vars

(***************************************************************************)
(* Properties of the main loop.                                            *)
(***************************************************************************)
\* a step that completes one pass through the loop body
IterationStep == pc = "loop" /\ k' = k + 1

\* a step of the loop body in which the reflected point was evaluated
EvaluatedStep == IterationStep /\ Len(log_likelihoods') = Len(log_likelihoods) + 1

\* r lies in the closed interval [0, 1]
InUnit(r) == ~RLt(r, RZero) /\ ~RLt(ROne, r)

\* C1: the minimum of the population's objective values never increases
\* from one main-loop iteration to the next (nor when the loop is left).
C1_MinNonIncreasing == [][pc = "loop" => Min(fx') <= Min(fx)]_vars

\* an iteration has replaced a candidate and lowered the population minimum
C1_Witness == pc = "loop" /\ simplex_success > 0 /\ Min(fx) < best_llh

\* C2: in an iteration that evaluates the reflected point, the population
\* changes iff the new objective value is strictly below the current worst
\* value; then exactly the worst slot is overwritten by the new point's
\* linear sub-vector, spherical point and objective value, and otherwise the
\* whole population is unchanged.
C2_ReplaceWorstOnly ==
    [][EvaluatedStep =>
        LET v == -log_likelihoods'[Len(log_likelihoods')]
            w == CHOOSE j \in Idx :
                    /\ \A m \in Idx : fx[m] <= fx[j]
                    /\ \A m \in Idx : m < j => fx[m] < fx[j]
        IN  /\ v = new_fx'
            /\ (population' # population) <=> (v < fx[w])
            /\ v < fx[w] =>
                  /\ S_cart'[w] = new_x_cart' /\ S_spher'[w] = new_x_spher'
                  /\ fx'[w] = v
                  /\ \A j \in Idx \ {w} :
                        /\ S_cart'[j] = S_cart[j]
                        /\ S_spher'[j] = S_spher[j]
                        /\ fx'[j] = fx[j]]_vars

\* one evaluated iteration replaced the worst candidate, another left the
\* population alone
C2_Witness ==
    /\ pc = "loop" /\ ~outside
    /\ simplex_success > 0 /\ failure > 0
    /\ S_cart[worst_idx] = new_x_cart /\ fx[worst_idx] = new_fx

\* the linear sub-vector new is old mirrored at the centroid of the
\* averaged members: n * (new + old) = 2 * (sum of the averaged members)
MirroredCart(new, old, cart, head, b) ==
    \A d \in 1..n_cart :
        RMul(RInt(n), RAdd(new[d], old[d]))
          = RMul(RInt(2), RAdd(RSum([j \in Idx |-> cart[j][d]], head), cart[b][d]))

\* the unit vector of new is that of old mirrored at the axis through the
\* unit vector c: new + old = 2 * (old . c) * c
MirroredSpher(new, old, c) ==
    LET dot == RAdd(RAdd(RMul(old.x, c.x), RMul(old.y, c.y)), RMul(old.z, c.z))
    IN  \A f \in {"x", "y", "z"} :
            RAdd(new[f], old[f]) = RMul(RInt(2), RMul(dot, c[f]))

\* C3 (as claimed): the candidate reflected through the centroid is the
\* current worst candidate, the member with the maximum objective value.
C3_ReflectsWorst ==
    [][IterationStep =>
        /\ MirroredCart(new_x_cart', S_cart[ArgMax(fx)], S_cart,
                        ChoiceHead(choice'), best_idx')
        /\ \A m \in 1..n_spher :
              MirroredSpher(new_x_spher'[m], S_spher[ArgMax(fx)][m],
                            centroid_spher'[m])]_vars

\* C3 (amended): the candidate reflected through the centroid is the one
\* drawn last, choice[-1]: a member other than the best, which may or may
\* not be the worst.  Its linear sub-vector is mirrored at the centroid
\* (new = 2*centroid - old) and its direction at the centroid direction.
C3_ReflectsLastDrawn ==
    [][IterationStep =>
        /\ choice'[n] \in Idx \ {ArgMin(fx)}
        /\ MirroredCart(new_x_cart', S_cart[choice'[n]], S_cart,
                        ChoiceHead(choice'), best_idx')
        /\ \A m \in 1..n_spher :
              MirroredSpher(new_x_spher'[m], S_spher[choice'[n]][m],
                            centroid_spher'[m])]_vars

\* an iteration reflected a candidate that was not the worst one
C3_Witness == pc = "loop" /\ k > 0 /\ choice[n] # worst_idx /\ choice[n] # best_idx

\* C4 (as claimed): the candidates averaged into the centroid include the
\* current best and never include the current worst.
C4_ExcludesWorst ==
    k > 0 => /\ best_idx \in ChoiceHead(choice) \cup {best_idx}
             /\ worst_idx \notin ChoiceHead(choice) \cup {best_idx}

\* C4 (amended): the candidates averaged into the centroid are the current
\* best and n-1 distinct other members; the reflected candidate (drawn
\* last) is never among them, the current worst may be.
C4_BestPlusOthers ==
    k > 0 => /\ best_idx \notin ChoiceHead(choice)
             /\ ChoiceHead(choice) \subseteq Idx
             /\ Cardinality(ChoiceHead(choice)) = n - 1
             /\ choice[n] \notin ChoiceHead(choice) \cup {best_idx}

\* the current worst candidate was averaged into the centroid
C4_Witness == pc = "loop" /\ k > 0 /\ worst_idx \in ChoiceHead(choice)

\* one of the three stopping rules holds at the head of the loop: the
\* standard deviation of fx is below 0.1 (100 * N^2 * variance < N^2), the
\* no-improvement counter exceeds its limit, or the iteration cap is reached
StopRuleHolds ==
    \/ 100 * (N * ISum([j \in Idx |-> fx[j] * fx[j]], Idx)
                - ISum(fx, Idx) * ISum(fx, Idx)) < N * N
    \/ no_improvement_counter > MaxNoImprovement
    \/ k = MaxIter

\* C5: at an iteration boundary the loop stops as soon as one of the three
\* stopping rules holds (and only then), and run_mymini then returns
\* normally, without an error and without another evaluation.
C5_StopsAtBoundary ==
    /\ [](pc = "loop" /\ StopRuleHolds =>
            ENABLED (StopStd \/ StopNoImprovement \/ StopCap))
    /\ [][pc = "loop" =>
            /\ StopRuleHolds =>
                  /\ pc' = "returned" /\ error' = "" /\ settings' = <<>>
                  /\ k' = k /\ population' = population /\ trace' = trace
            /\ pc' = "returned" => StopRuleHolds]_vars

\* the loop ran into the iteration cap: no break message was printed
C5_Witness ==
    /\ pc = "returned" /\ error = "" /\ k = MaxIter /\ stdout = ""
    /\ ~StdBelowThreshold(fx)

\* what is left to do: the start points not yet evaluated, the iterations
\* not yet made, and the return itself
Rank ==
    (N - i) + (MaxIter - k)
      + (IF pc = "generate_loglike" THEN 2 ELSE IF pc \in {"init", "loop"} THEN 1 ELSE 0)

\* C6: run_mymini always terminates; the main loop runs at most MaxIter
\* iterations and the objective is evaluated at most N + MaxIter times, at
\* most once per iteration after the N initial evaluations.  Termination:
\* while it has not returned or raised it can take a step, and every step
\* lowers Rank, which is never negative.
C6_Terminates ==
    /\ [](k <= MaxIter /\ Len(log_likelihoods) <= N + k /\ Rank >= 0)
    /\ [](pc = "init" => i < N /\ StartResults(event, i) # {})
    /\ [](pc = "loop" =>
            \/ ENABLED (StopStd \/ StopNoImprovement \/ StopCap)
            \/ LoopContinues /\ RawChoices # {} /\ GetLlhResults # {})
    /\ [][Rank' < Rank]_vars

\* a run that used every iteration and evaluated the objective in each
C6_Witness == pc = "returned" /\ k = MaxIter /\ Len(log_likelihoods) = N + MaxIter

\* C7: an iteration calls the objective at most once (the trace grows by at
\* most one entry), and a replacement happens only in an iteration that
\* evaluated: the objective value stored with the replaced slot is the one
\* that evaluation returned, for the point that was handed to it.
C7_OneEvaluationPerIteration ==
    [][pc = "loop" =>
        /\ Len(log_likelihoods') - Len(log_likelihoods) \in {0, 1}
        /\ Len(param_values') = Len(log_likelihoods')
        /\ population' # population =>
              /\ Len(log_likelihoods') = Len(log_likelihoods) + 1
              /\ fx'[worst_idx'] = -log_likelihoods'[Len(log_likelihoods')]
              /\ SubSeq(param_values'[Len(param_values')], 1, n)
                   = FunParamVals(use_priors,
                                  create_x(S_cart'[worst_idx'], S_spher'[worst_idx']))]_vars

\* every iteration so far evaluated the objective and one of them replaced
C7_Witness ==
    pc = "loop" /\ k > 1 /\ Len(log_likelihoods) = N + k /\ simplex_success > 0

\* C8: in bounded mode every member of the population has every coordinate
\* of its linear sub-vector within [0, 1].
C8_AcceptedInUnitCube ==
    use_priors => \A j \in Idx : \A d \in 1..n_cart : InUnit(S_cart[j][d])

\* bounded mode, and the last reflected point was accepted into the population
C8_Witness ==
    /\ use_priors /\ pc = "loop" /\ k > 0 /\ ~outside
    /\ S_cart[worst_idx] = new_x_cart /\ fx[worst_idx] = new_fx
    /\ failure > 0

\* C9: in bounded mode an iteration whose reflected point has a linear
\* coordinate below 0 or above 1 does not evaluate the objective, leaves the
\* population unchanged and counts as a failure, while a point inside the
\* cube is evaluated; in physical mode every reflected point is evaluated.
C9_OutsideNotEvaluated ==
    [][IterationStep =>
        LET oob == \E d \in 1..n_cart : ~InUnit(new_x_cart'[d])
        IN  /\ use_priors /\ oob =>
                  /\ trace' = trace /\ population' = population
                  /\ failure' = failure + 1
                  /\ simplex_success' = simplex_success
            /\ use_priors /\ ~oob => Len(log_likelihoods') = Len(log_likelihoods) + 1
            /\ ~use_priors =>
                  /\ Len(log_likelihoods') = Len(log_likelihoods) + 1
                  /\ SubSeq(param_values'[Len(param_values')], 1, n)
                       = create_x(new_x_cart', new_x_spher')]_vars

\* bounded mode, and the last reflected point fell outside the unit cube
C9_Witness ==
    /\ use_priors /\ pc = "loop" /\ outside /\ failure > 0
    /\ \E d \in 1..n_cart : ~InUnit(new_x_cart[d])

\* C10 (as claimed): the value run_mymini returns is the population member
\* with the minimum objective value as a flat parameter vector.
C10_ReturnsBestMember ==
    pc = "returned" => settings = create_x(S_cart[ArgMin(fx)], S_spher[ArgMin(fx)])

\* C10 (amended): run_mymini returns an empty settings mapping; the
\* population member with the minimum objective value, as a flat vector
\* (linear values, then azimuth and zenith of each spherical point), is an
\* entry of the evaluation trace, and no entry has a higher log-likelihood.
C10_BestMemberInTrace ==
    pc = "returned" =>
        /\ settings = <<>>
        /\ LET b == ArgMin(fx)
           IN  \E t \in 1..Len(param_values) :
                  /\ \A d \in 1..n_cart : param_values[t][d] = S_cart[b][d]
                  /\ \A m \in 1..n_spher :
                        /\ param_values[t][n_cart + 2 * m - 1] = S_spher[b][m].az
                        /\ param_values[t][n_cart + 2 * m] = S_spher[b][m].zen
                  /\ log_likelihoods[t] = -fx[b]
                  /\ \A u \in 1..Len(log_likelihoods) :
                        log_likelihoods[u] <= log_likelihoods[t]

\* run_mymini returned and its best member is a reflected point
C10_Witness ==
    /\ pc = "returned" /\ simplex_success > 0
    /\ \E t \in (N + 1)..Len(param_values) : log_likelihoods[t] = -Min(fx)

(***************************************************************************)
(* Properties of the loglike callback and of generate_loglike.             *)
(***************************************************************************)
\* a step in which loglike called the evaluator
LoglikeCalled == get_llh_calls' = get_llh_calls + 1

\* C11 (as claimed): a call of loglike aborts the reconstruction exactly
\* when the evaluator's llh is non-finite or positive; a finite llh <= 0,
\* llh = 0 included, is appended to the evaluation trace and returned to
\* the optimizer.
C11_AbortsExactlyOnBadLlh ==
    [][LoglikeCalled =>
        IF ~llh'.finite \/ llh'.llh > 0
        THEN pc' = "raised" /\ trace' = trace
        ELSE /\ pc' # "raised"
             /\ Len(log_likelihoods') = Len(log_likelihoods) + 1
             /\ Len(param_values') = Len(param_values) + 1
             /\ log_likelihoods'[Len(log_likelihoods')] = llh'.llh
             /\ pc = "init" => fx'[i] = -llh'.llh
             /\ pc = "loop" => new_fx' = -llh'.llh]_vars

\* C12: when the total observed charge summed over the operational sensors
\* is 0 or not finite, generate_loglike raises: the callback is never
\* called, the optimizer makes no evaluation and no iteration, the event's
\* evaluation trace stays empty and nothing more happens for the event.
C12_NoChargeRaises ==
    /\ [](/\ pc # "generate_loglike"
          /\ \/ ~FIsFinite(TotalCharge(event_dom_info))
             \/ TotalCharge(event_dom_info) = Fin(0)
          => /\ pc = "raised"
             /\ error \in {"ValueError", "negative QE", "no charge", "inf charge"}
             /\ get_llh_calls = 0 /\ i = 0 /\ k = 0
             /\ param_values = <<>> /\ log_likelihoods = <<>>)
    /\ [][pc # "raised"]_vars

\* an event whose hits carry no charge was rejected
C12_Witness ==
    /\ pc = "raised" /\ error = "no charge"
    /\ Len(hits) > 0 /\ TotalCharge(event_dom_info) = Fin(0)

\* C13: the evaluation trace is append-only: param_values and
\* log_likelihoods always have the same length, a call of loglike that
\* returns appends exactly one entry to each, and no step changes the
\* length otherwise or touches an entry that is already there.
C13_TraceAppendOnly ==
    /\ [](Len(param_values) = Len(log_likelihoods))
    /\ [][/\ Len(log_likelihoods') =
               Len(log_likelihoods) + (IF LoglikeCalled /\ pc' # "raised" THEN 1 ELSE 0)
          /\ \A t \in 1..Len(log_likelihoods) :
                /\ param_values'[t] = param_values[t]
                /\ log_likelihoods'[t] = log_likelihoods[t]]_vars

\* the trace holds entries of the start points and of iterations, with
\* different parameter vectors and different values
C13_Witness ==
    /\ pc = "loop" /\ Len(log_likelihoods) > N + 1
    /\ param_values[1] # param_values[Len(param_values)]
    /\ log_likelihoods[1] # log_likelihoods[Len(log_likelihoods)]

\* generate_loglike has built the arrays of the event
Built == pc # "generate_loglike"

\* the rows of the detector table that are operational, in table order
OperationalRows == {j \in 0..(NumDoms - 1) : dom_info[j].operational}

\* the row of the detector table that has sd_idx sd
TableRow(sd) == CHOOSE j \in 0..(NumDoms - 1) : dom_info[j].sd_idx = sd

HitSdIdx(a) ==
    LET e == CHOOSE e \in 1..Len(hits_indexer) :
                hits_indexer[e].offset < a
                  /\ a <= hits_indexer[e].offset + hits_indexer[e].num
    IN  hits_indexer[e].sd_idx

\* C15 (as claimed): the per-hit array contains exactly the hits of the
\* operational sensors, and each hit's event_dom_idx is the index, in the
\* per-sensor array, of the sensor that recorded the hit.
C15_HitsOfOperationalSensors ==
    pc = "init" =>
        /\ Len(event_hit_info)
             = Cardinality({a \in 1..Len(hits) : dom_info[TableRow(HitSdIdx(a))].operational})
        /\ \A a \in 1..Len(event_hit_info) :
              /\ event_hit_info[a].event_dom_idx < Len(event_dom_info)
              /\ event_dom_info[event_hit_info[a].event_dom_idx + 1].sd_idx = HitSdIdx(a)

\* C16: an operational sensor without an entry in hits_indexer gets
\* hits_start_idx = 0, hits_stop_idx = 0 and total_observed_charge = 0, and
\* the missing hits raise nothing: generate_loglike raises only when no
\* sensor is operational, an efficiency is not positive, or the total charge
\* is not positive or not finite.
C16_NoHitsDefaults ==
    Built =>
        /\ \A r \in 1..Len(event_dom_info) :
              (\A e \in 1..Len(hits_indexer) :
                    hits_indexer[e].sd_idx # event_dom_info[r].sd_idx)
                => /\ event_dom_info[r].hits_start_idx = 0
                   /\ event_dom_info[r].hits_stop_idx = 0
                   /\ event_dom_info[r].total_observed_charge = Fin(0)
        /\ pc = "raised" <=>
              \/ OperationalRows = {}
              \/ \E j \in OperationalRows : dom_info[j].quantum_efficiency <= 0
              \/ ~FPositive(TotalCharge(event_dom_info))
              \/ ~FIsFinite(TotalCharge(event_dom_info))

\* the callback was built for an event in which one operational sensor has
\* hits and another has none
C16_Witness ==
    /\ pc = "init" /\ Len(event_dom_info) = NumDoms /\ Len(hits) = MaxHits
    /\ \E r \in 1..Len(event_dom_info) :
          /\ \A e \in 1..Len(hits_indexer) :
                hits_indexer[e].sd_idx # event_dom_info[r].sd_idx
          /\ event_dom_info[r].hits_stop_idx = 0

(***************************************************************************)
(* Properties of the assembled records                                     *)
(***************************************************************************)

Assembled == pc = "assembled"

\* C17: in every assembled record energy = track_energy + cascade_energy
\* when the hypothesis has both, the one present energy when it has one, and
\* 0 when it has neither.
C17_DerivedEnergy ==
    Assembled =>
        \A r \in 1..Len(llhp) :
            llhp[r]["energy"] =
                (IF Has(dim_names, "track_energy") THEN llhp[r]["track_energy"] ELSE 0)
              + (IF Has(dim_names, "cascade_energy") THEN llhp[r]["cascade_energy"] ELSE 0)

\* a record of a hypothesis with both energies, each non-zero
C17_Witness ==
    /\ Assembled /\ Len(llhp) >= 1
    /\ Has(dim_names, "track_energy") /\ Has(dim_names, "cascade_energy")
    /\ llhp[1]["track_energy"] = MaxParam /\ llhp[1]["cascade_energy"] = MaxParam
    /\ llhp[1]["energy"] = 2 * MaxParam

TrackDirection == Has(dim_names, "track_zenith") /\ Has(dim_names, "track_azimuth")

CascadeDirection ==
    Has(all_dim_names(dim_names), "cascade_zenith")
      /\ Has(all_dim_names(dim_names), "cascade_azimuth")

\* C18: with a track direction and no cascade direction the combined zenith
\* and azimuth of every record are the track's; with a cascade direction and
\* no track direction they are the cascade's.
C18_SingleDirection ==
    Assembled =>
        \A r \in 1..Len(llhp) :
            /\ TrackDirection /\ ~CascadeDirection
                 => /\ llhp[r]["zenith"] = llhp[r]["track_zenith"]
                    /\ llhp[r]["azimuth"] = llhp[r]["track_azimuth"]
            /\ CascadeDirection /\ ~TrackDirection
                 => /\ llhp[r]["zenith"] = llhp[r]["cascade_zenith"]
                    /\ llhp[r]["azimuth"] = llhp[r]["cascade_azimuth"]

\* a record of a track-only hypothesis whose zenith and azimuth differ
C18_Witness ==
    /\ Assembled /\ Len(llhp) >= 1
    /\ TrackDirection /\ ~CascadeDirection
    /\ llhp[1]["track_zenith"] # llhp[1]["track_azimuth"]
    /\ llhp[1]["zenith"] = llhp[1]["track_zenith"]

(***************************************************************************)
(* Properties of the reflection and of the centroid                        *)
(***************************************************************************)

\* the point that was reflected
OldCart == S_cart[ChoiceLast(choice)]
OldSpher == S_spher[ChoiceLast(choice)]

SameDirection(a, b) ==
    \A m \in 1..n_spher : a[m].x = b[m].x /\ a[m].y = b[m].y /\ a[m].z = b[m].z

\* 2*c - p is a floating point number in every linear dimension
FirstReflectionExact ==
    \A d \in 1..n_cart :
        FlRound(2 * centroid_cart[d][1] - OldCart[d][1])
            = 2 * centroid_cart[d][1] - OldCart[d][1]

\* C19 (as claimed): reflecting the linear sub-vector p through c twice
\* returns p exactly, and the spherical reflect applied twice with the same
\* centroid returns the original direction.
C19_ReflectionInvolution ==
    pc = "reflected_twice" =>
        /\ new_x_cart = OldCart
        /\ SameDirection(new_x_spher, OldSpher)

\* C19 (amended): reflecting p through c twice returns p exactly whenever
\* 2*c - p is computed without rounding, and the spherical reflect applied
\* twice with the same centroid returns the original direction.
C19_ReflectionInvolutionUnrounded ==
    pc = "reflected_twice" =>
        /\ FirstReflectionExact => new_x_cart = OldCart
        /\ SameDirection(new_x_spher, OldSpher)

\* reflected twice without rounding, the point away from the centroid in
\* both parts
C19_Witness ==
    /\ pc = "reflected_twice"
    /\ FirstReflectionExact
    /\ OldCart # centroid_cart
    /\ new_x_cart = OldCart
    /\ \A m \in 1..n_spher :
          /\ OldSpher[m].x # centroid_spher[m].x \/ OldSpher[m].y # centroid_spher[m].y
          /\ OldSpher[m].z # centroid_spher[m].z
    /\ SameDirection(new_x_spher, OldSpher)

\* the average of the selected points' unit vectors, before fill_from_cart
AverageVector(m) ==
    [f \in {"x", "y", "z"} |->
        RDiv(RAdd(RSum([j \in Idx |-> S_spher[j][m][f]], ChoiceHead(choice)),
                  S_spher[best_idx][m][f]),
             RInt(n))]

\* C20: after the centroid step the spherical centroid's (x, y, z) has unit
\* norm whenever the average of the selected unit vectors is not zero, and
\* zenith in [0, pi] and azimuth in [0, 2*pi) are derived from that vector.
C20_CentroidUnitNorm ==
    pc \in {"reflected", "reflected_twice"} =>
        \A m \in 1..n_spher :
            (\E f \in {"x", "y", "z"} : AverageVector(m)[f] # RZero)
              => LET c == centroid_spher[m]
                 IN  /\ RAdd(RAdd(RSq(c.x), RSq(c.y)), RSq(c.z)) = ROne
                     /\ ~RLt(c.zen, RZero) /\ ~RLt(RInt(2), c.zen)
                     /\ ~RLt(c.az, RZero) /\ RLt(c.az, RInt(4))
                     /\ c.zen = ArcCos(c.z)
                     /\ c.az = RMod(ArcTan2(c.y, c.x), 4)
                     /\ c.x = RMul(Sin(c.zen), Cos(c.az))
                     /\ c.y = RMul(Sin(c.zen), Sin(c.az))

\* a centroid computed from an average shorter than 1 that points along -y,
\* where arctan2 is negative
C20_Witness ==
    /\ pc = "reflected"
    /\ \E m \in 1..n_spher :
          /\ RLt(AverageVector(m)["y"], RZero) /\ RLt(RInt(-1), AverageVector(m)["y"])
          /\ AverageVector(m)["x"] = RZero /\ AverageVector(m)["z"] = RZero
          /\ centroid_spher[m].y = RInt(-1)
          /\ centroid_spher[m].az = RInt(3)

(***************************************************************************)
(* Further properties of run_mymini                                        *)
(***************************************************************************)

\* the loop was left by the stagnation break
StagnationStop ==
    pc = "loop" /\ pc' = "returned" /\ stdout' = "no improvement found, stopping."

\* C21: an iteration whose population minimum is strictly below best_llh
\* resets the no-improvement counter to 0 (and records the minimum), every
\* other iteration adds exactly 1 to it, whether or not its reflection
\* replaced the worst candidate; the stagnation break is taken only at a loop
\* head with the counter above the limit, which takes more than that many
\* iterations in a row without a strict decrease of the minimum.
C21_NoImprovementCounter ==
    /\ [][IterationStep =>
            IF Min(fx) < best_llh
            THEN no_improvement_counter' = 0 /\ best_llh' = Min(fx)
            ELSE /\ no_improvement_counter' = no_improvement_counter + 1
                 /\ best_llh' = best_llh]_vars
    /\ [][StagnationStop =>
            /\ no_improvement_counter > MaxNoImprovement
            /\ k > MaxNoImprovement
            /\ k' = k]_vars
    /\ [](no_improvement_counter < k \/ k = 0)

\* the loop stopped for stagnation although every iteration replaced the
\* worst candidate
C21_Witness ==
    /\ pc = "returned" /\ stdout = "no improvement found, stopping."
    /\ simplex_success = k /\ k > 0
    /\ no_improvement_counter = MaxNoImprovement + 1

(***************************************************************************)
(* Properties of run                                                       *)
(***************************************************************************)

\* the method names of the claim
ClaimedMethods == {"test", "truth", "mymini", "multinest", "scipy", "nlopt", "skopt"}

\* C22 (as claimed): for every method name in {test, truth, mymini,
\* multinest, scipy, nlopt, skopt} run runs exactly one optimizer per event
\* and then assembles the event's records, and ValueError('Unknown Method')
\* is raised exactly for the names outside that set.
C22_OneBackendPerEvent ==
    /\ pc \in {"returned", "assembled"} => Len(backends) = 1 /\ method \in ClaimedMethods
    /\ error = "Unknown Method" => method \notin ClaimedMethods

\* a fatal condition of the claim: zero or non-finite total charge, or a
\* non-finite or positive log-likelihood
FatalErrors == {"no charge", "inf charge", "LLH not finite", "LLH positive"}

\* the number of events run has started
EventsStarted == NumEvents - Len(events_iterator)

\* C23 (as claimed): a fatal condition raised while one event is being
\* reconstructed aborts that event only; the events that follow it in the
\* iterator are still reconstructed by the same call to run.
C23_AbortsEventOnly ==
    pc = "raised" /\ error \in FatalErrors /\ events_iterator # <<>>
        => ENABLED BeginEvent

\* C23 (amended): a fatal condition raised while one event is being
\* reconstructed ends the call to run: nothing is written for that event,
\* and no later event of the iterator is started.
C23_AbortsRun ==
    /\ [](pc = "raised" => Len(opt_meta) = EventsStarted - 1)
    /\ [](pc = "raised" => ~ENABLED BeginEvent)
    /\ [][pc # "raised"]_vars

\* a fatal condition in the first event, with an event left in the iterator
C23_Witness ==
    /\ pc = "raised" /\ error \in FatalErrors
    /\ events_iterator # <<>> /\ opt_meta = <<>>

RECURSIVE SumNumLlhp(_)
\* the records counted in the metadata written so far
SumNumLlhp(meta) ==
    IF meta = <<>> THEN 0
    ELSE SumNumLlhp(SubSeq(meta, 1, Len(meta) - 1)) + meta[Len(meta)].num_llhp

\* an event is being processed and its callback exists
InEvent == pc \in {"dispatch", "dispatch_chain", "backend", "returned", "assembled"}

\* C28: every event starts with an empty evaluation trace, and the records
\* assembled for an event and the num_llhp written to its metadata count
\* exactly the successful loglike calls made for that event, none made for
\* an earlier event.  (No call fails before a raise, and a raise ends run,
\* so the successful calls of the current event are all calls made less
\* those counted for the events before.)
C28_TracePerEvent ==
    /\ [][pc = "next_event" /\ pc' # "done" =>
            param_values' = <<>> /\ log_likelihoods' = <<>>]_vars
    /\ [](InEvent => Len(param_values) = get_llh_calls - SumNumLlhp(opt_meta))
    /\ [](pc = "assembled" => Len(llhp) = Len(param_values))
    /\ [][pc = "assembled" =>
            /\ Len(opt_meta') = Len(opt_meta) + 1
            /\ opt_meta'[Len(opt_meta')].num_llhp = Len(llhp)
            /\ opt_meta'[Len(opt_meta')].num_llhp = get_llh_calls - SumNumLlhp(opt_meta)]_vars

\* two events were completed, with a different number of calls each
C28_Witness ==
    /\ pc = "done" /\ Len(opt_meta) = NumEvents
    /\ opt_meta[1].num_llhp = MaxBackendCalls
    /\ opt_meta[NumEvents].num_llhp = 1
    /\ get_llh_calls = SumNumLlhp(opt_meta)

(***************************************************************************)
(* Further properties of generate_loglike                                  *)
(***************************************************************************)

\* C25: every operational sensor that has hits gets the hit range
\* [offset, offset + num) of its hits_indexer entry, and its
\* total_observed_charge is the sum of the charges of exactly the hits in
\* that range.
C25_HitRangeAndCharge ==
    Built =>
        \A r \in 1..Len(event_dom_info) :
        \A e \in 1..Len(hits_indexer) :
            hits_indexer[e].sd_idx = event_dom_info[r].sd_idx
              => /\ event_dom_info[r].hits_start_idx = hits_indexer[e].offset
                 /\ event_dom_info[r].hits_stop_idx
                        = hits_indexer[e].offset + hits_indexer[e].num
                 /\ event_dom_info[r].total_observed_charge
                        = FSum([a \in 1..hits_indexer[e].num |->
                                    hits[hits_indexer[e].offset + a].charge])

\* the callback was built for an event whose second hit is the only hit of
\* an operational sensor, and the first hit has a charge too
C25_Witness ==
    /\ pc = "init" /\ Len(hits) = 2
    /\ hits[1].charge = Fin(MaxCharge) /\ hits[2].charge = Fin(MaxCharge)
    /\ \E r \in 1..Len(event_dom_info) :
          /\ event_dom_info[r].hits_start_idx = 1
          /\ event_dom_info[r].hits_stop_idx = 2
          /\ event_dom_info[r].total_observed_charge = Fin(MaxCharge)

(***************************************************************************)
(* Further invariants of the population                                    *)
(***************************************************************************)

\* population member j is entry t of the evaluation trace
MemberIsEntry(j, t) ==
    /\ \A d \in 1..n_cart : param_values[t][d] = S_cart[j][d]
    /\ \A m \in 1..n_spher :
          /\ param_values[t][n_cart + 2 * m - 1] = S_spher[j][m].az
          /\ param_values[t][n_cart + 2 * m] = S_spher[j][m].zen
    /\ log_likelihoods[t] = -fx[j]

\* C26: at every loop head and at termination of run_mymini the minimum
\* objective value of the population is the minimum over all evaluations
\* made so far (fx = -llh), and the best point of the evaluation trace is a
\* member of the population.
C26_PopulationKeepsBest ==
    pc \in {"loop", "returned"} =>
        /\ Len(log_likelihoods) >= N
        /\ \A u \in 1..Len(log_likelihoods) : -log_likelihoods[u] >= Min(fx)
        /\ \E t \in 1..Len(log_likelihoods), j \in Idx :
              /\ -log_likelihoods[t] = Min(fx)
              /\ MemberIsEntry(j, t)

\* a loop head after a rejected and an accepted reflection, the best point
\* being a reflected one
C26_Witness ==
    /\ pc = "loop" /\ failure > 0 /\ simplex_success > 0
    /\ \A t \in 1..N : -log_likelihoods[t] > Min(fx)
    /\ \E t \in (N + 1)..Len(log_likelihoods) : -log_likelihoods[t] = Min(fx)

\* C27: in every iteration the n indices of the selection step are pairwise
\* distinct, lie in 0..N-1 and differ from the best index, so the reflected
\* candidate choice[-1] is neither the best candidate nor one of the n-1
\* other candidates averaged into the centroid.
C27_SelectionDistinct ==
    [][IterationStep =>
          /\ DOMAIN choice' = 1..n
          /\ \A a \in 1..n : choice'[a] \in 0..(N - 1) /\ choice'[a] # best_idx'
          /\ \A a, b \in 1..n : a # b => choice'[a] # choice'[b]
          /\ best_idx' = ArgMin(fx)
          /\ ChoiceLast(choice') \notin ChoiceHead(choice') \cup {best_idx'}]_vars

\* an iteration drew the index of the best candidate and the index after it
\* for the reflected point, and both were moved up by one
C27_Witness ==
    /\ pc = "loop" /\ k > 0
    /\ best_idx > 0 /\ best_idx < N - 1
    /\ best_idx + 1 \in ChoiceHead(choice)
    /\ ChoiceLast(choice) = N - 1

(***************************************************************************)
(* The degenerate centroid                                                 *)
(***************************************************************************)

\* the sum of the unit vectors of the best point and of choice[:-1] is zero
ZeroAverage(m) ==
    \A f \in {"x", "y", "z"} :
        RAdd(RSum([j \in Idx |-> S_spher[j][m][f]],
                  {choice[a] : a \in 1..(Len(choice) - 1)}),
             S_spher[best_idx][m][f]) = RZero

\* the direction zen = 0, az = 0 with its cached values
Pole ==
    [zen |-> RZero, az |-> RZero, x |-> RZero, y |-> RZero, z |-> ROne,
     sinzen |-> RZero, coszen |-> ROne, sinaz |-> RZero, cosaz |-> ROne]

\* C24: when the average of the selected unit vectors is the zero vector,
\* fill_from_cart sets the centroid to the pole (zen = 0, az = 0,
\* (x, y, z) = (0, 0, 1), coszen = 1, sinzen = 0, cosaz = 1, sinaz = 0)
\* without dividing, and the iteration continues with the reflection
\* through the pole, which turns the point half way around the z axis.
C24_ZeroAveragePole ==
    /\ [](\A m \in 1..n_spher :
            ZeroAverage(m) =>
                /\ pc \in {"centroid", "reflected"} => centroid_spher[m] = Pole
                /\ pc = "reflected" =>
                      LET old == S_spher[choice[Len(choice)]][m]
                      IN  /\ new_x_spher[m].x = RNeg(old.x)
                          /\ new_x_spher[m].y = RNeg(old.y)
                          /\ new_x_spher[m].z = old.z)
    /\ [][pc = "centroid" /\ (\A m \in 1..n_spher : ZeroAverage(m)) =>
             /\ pc' = "reflected"
             /\ centroid_spher' = centroid_spher
             /\ new_x_spher' = ReflectSpher(S_spher[choice[Len(choice)]],
                                            [m \in 1..n_spher |-> Pole])]_vars

\* two opposite directions were averaged and a point off the z axis was
\* reflected through the pole
C24_Witness ==
    /\ pc = "reflected" /\ Len(choice) = 2
    /\ \A m \in 1..n_spher :
          /\ ZeroAverage(m)
          /\ centroid_spher[m] = Pole
          /\ S_spher[choice[Len(choice)]][m].z = RZero
          /\ new_x_spher[m].x # S_spher[choice[Len(choice)]][m].x
               \/ new_x_spher[m].y # S_spher[choice[Len(choice)]][m].y

(***************************************************************************)
(* const.py: the single integer index of a DOM                             *)
(***************************************************************************)

NUM_STRINGS == 86
NUM_DOMS_PER_STRING == 60

\* the reconstruction is not running
RecoIdle ==
    /\ event = CHOOSE e \in Events : e.lo = 1 /\ e.span = 1 /\ e.pegleg_idx = 0
                                      /\ e.scalefactor = 1
    /\ dom_info = CHOOSE d \in RunDomInfos : TRUE
    /\ hits_indexer = <<>>
    /\ hits = <<>>
    /\ event_dom_info = <<>>
    /\ event_hit_info = <<>>
    /\ llh = NoLlh
    /\ get_llh_calls = 0
    /\ dim_names = <<>>
    /\ llhp = <<>>
    /\ use_priors = FALSE
    /\ MinimizerIdle
    /\ param_values = <<>>
    /\ log_likelihoods = <<>>
    /\ settings = <<>>
    /\ error = ""
    /\ stdout = ""
    /\ SingleEvent

\* an index that counts the DOMs string by string
get_sd_idx_StringMajor(a_string, an_om) ==
    (a_string - 1) * NUM_DOMS_PER_STRING + (an_om - 1)

\* line 126
get_sd_idx(a_string, an_om) == (an_om - 1) * NUM_STRINGS + (a_string - 1)

\* lines 143-146: divmod(sd_idx, NUM_STRINGS), each part plus one
get_string_om_pair(idx) ==
    LET om_idx == idx \div NUM_STRINGS
        string_idx == idx % NUM_STRINGS
    IN  <<string_idx + 1, om_idx + 1>>

\* either a string and a DOM number are about to be converted, or an index is
InitIdx ==
    /\ RecoIdle
    /\ data = <<>>
    /\ delete_while_filling = FALSE
    /\ scalar_dtypes = {}
    /\ vector_dtypes = <<>>
    /\ scalar_arrays = <<>>
    /\ vector_arrays = <<>>
    /\ frame_idx = 0
    /\ \/ /\ pc = "get_sd_idx"
          /\ string \in 1..NUM_STRINGS
          /\ om \in 1..NUM_DOMS_PER_STRING
          /\ sd_idx = 0
          /\ string_om_pair = <<1, 1>>
       \/ /\ pc = "get_string_om_pair"
          /\ string = 1
          /\ om = 1
          /\ sd_idx \in 0..(NUM_STRINGS * NUM_DOMS_PER_STRING - 1)
          /\ string_om_pair = <<1, 1>>

\* lines 106-126: get_sd_idx(string, om, pmt)
GetSdIdx ==
    /\ pc = "get_sd_idx"
    /\ \E pmt \in {0, 1} :
          IF pmt # 0
          THEN /\ pc' = "raised"
               /\ error' = "PMT != 0 is not implemented"
               /\ UNCHANGED sd_idx
          ELSE /\ sd_idx' = get_sd_idx(string, om)
               /\ pc' = "pair_of_sd_idx"
               /\ UNCHANGED error
    /\ UNCHANGED <<string, om, string_om_pair>>
    /\ UNCHANGED <<columnar, batch, event, use_priors, i, population, counters, locals,
                   trace, settings, stdout, inputs, built, call, assembled>>

\* lines 129-146: get_string_om_pair, of the index get_sd_idx returned or
\* of an index
GetStringOmPair ==
    /\ pc \in {"pair_of_sd_idx", "get_string_om_pair"}
    /\ string_om_pair' = get_string_om_pair(sd_idx)
    /\ pc' = IF pc = "pair_of_sd_idx" THEN "converted" ELSE "sd_idx_of_pair"
    /\ UNCHANGED <<string, om, sd_idx, error>>
    /\ UNCHANGED <<columnar, batch, event, use_priors, i, population, counters, locals,
                   trace, settings, stdout, inputs, built, call, assembled>>

\* lines 106-126: get_sd_idx of the pair get_string_om_pair returned
GetSdIdxBack ==
    /\ pc = "sd_idx_of_pair"
    /\ string' = string_om_pair[1]
    /\ om' = string_om_pair[2]
    /\ sd_idx' = get_sd_idx(string_om_pair[1], string_om_pair[2])
    /\ pc' = "converted_back"
    /\ UNCHANGED <<string_om_pair, error>>
    /\ UNCHANGED <<columnar, batch, event, use_priors, i, population, counters, locals,
                   trace, settings, stdout, inputs, built, call, assembled>>

NextIdx == GetSdIdx \/ GetStringOmPair \/ GetSdIdxBack

SpecIdx == InitIdx /\ [][NextIdx]_vars

(***************************************************************************)
(* The index of a DOM and back                                             *)
(***************************************************************************)

NumFrames == 3
MaxVectorLen == 2

ScalarKeys == {"header"}
VectorKeys == {"pulses", "photons"}

\* an entry of np.empty nothing was written to
Uninitialized == <<>>

\* per key: -1 if the frame lacks the key, else the length of the vector
\* (0 for a scalar)
FramePatterns ==
    {p \in [ScalarKeys \cup VectorKeys -> -1..MaxVectorLen] :
        \A key \in ScalarKeys : p[key] <= 0}

\* frame number f: its values are marked with f and their position
Frame(f, p) ==
    [key \in {q \in DOMAIN p : p[q] >= 0} |->
        IF key \in ScalarKeys
        THEN [kind |-> "scalar", val |-> <<f>>]
        ELSE [kind |-> "vector", val |-> [e \in 1..p[key] |-> <<f, e>>]]]

\* lines 894-916: get type and size info, from frame number f on
RECURSIVE GetSizes(_, _, _, _)
GetSizes(frames, f, sdt, vdt) ==
    IF f > Len(frames)
    THEN [scalar_dtypes |-> sdt, vector_dtypes |-> vdt]
    ELSE LET frame_d == frames[f]
             keys == DOMAIN frame_d \ sdt
             scalars == {key \in keys : frame_d[key].kind = "scalar"}
             vectors == keys \ scalars
         IN  GetSizes(frames, f + 1, sdt \cup scalars,
                      [key \in DOMAIN vdt \cup vectors |->
                          (IF key \in DOMAIN vdt THEN vdt[key] ELSE 0)
                          + (IF key \in vectors THEN Len(frame_d[key].val) ELSE 0)])

\* lines 979-995: one scalar key of one frame
FillScalar(array_d, fidx, frame_d, key, num_frames) ==
    IF key \notin DOMAIN frame_d
    THEN LET valid == IF "valid" \in DOMAIN array_d
                      THEN array_d.valid
                      ELSE [j \in 0..(num_frames - 1) |-> TRUE]
         IN  [data |-> array_d.data, valid |-> [valid EXCEPT ![fidx] = FALSE]]
    ELSE [array_d EXCEPT !.data[fidx] = frame_d[key].val]

\* the start of the previous entry taken for its stop
PrevStop_Start(index, fidx) == IF fidx = 0 THEN 0 ELSE index[fidx - 1].start

\* lines 999-1002
PrevStop(index, fidx) == IF fidx = 0 THEN 0 ELSE index[fidx - 1].stop

\* lines 997-1011: one vector key of one frame
FillVector(array_d, fidx, frame_d, key) ==
    LET start == PrevStop(array_d.index, fidx)
    IN  IF key \notin DOMAIN frame_d
        THEN [array_d EXCEPT !.index[fidx] = [start |-> start, stop |-> start]]
        ELSE LET val == frame_d[key].val
                 length == Len(val)
                 stop == start + length
             IN  [data |-> [j \in DOMAIN array_d.data |->
                               IF start <= j /\ j < stop
                               THEN val[j - start + 1]
                               ELSE array_d.data[j]],
                  index |-> [array_d.index EXCEPT
                                ![fidx] = [start |-> start, stop |-> stop]]]

\* construct_arrays is called with one to NumFrames frames
InitColumnar ==
    /\ RecoIdle
    /\ string = 1 /\ om = 1 /\ sd_idx = 0 /\ string_om_pair = <<1, 1>>
    /\ pc = "get_sizes"
    /\ \E num_frames \in 1..NumFrames :
          \E p \in [1..num_frames -> FramePatterns] :
              data = [f \in 1..num_frames |-> Frame(f, p[f])]
    /\ delete_while_filling \in BOOLEAN
    /\ scalar_dtypes = {}
    /\ vector_dtypes = <<>>
    /\ scalar_arrays = <<>>
    /\ vector_arrays = <<>>
    /\ frame_idx = 0

\* lines 894-916: get type and size info
GetTypeAndSize ==
    /\ pc = "get_sizes"
    /\ scalar_dtypes' = GetSizes(data, 1, {}, <<>>).scalar_dtypes
    /\ vector_dtypes' = GetSizes(data, 1, {}, <<>>).vector_dtypes
    /\ pc' = "construct"
    /\ UNCHANGED <<data, delete_while_filling, scalar_arrays, vector_arrays,
                   frame_idx, error>>
    /\ UNCHANGED <<indexing, batch, event, use_priors, i, population, counters, locals,
                   trace, settings, stdout, inputs, built, call, assembled>>

\* lines 918-966: construct empty arrays
ConstructEmptyArrays ==
    /\ pc = "construct"
    /\ scalar_arrays' =
          [key \in scalar_dtypes |->
              [data |-> [j \in 0..(Len(data) - 1) |-> Uninitialized]]]
    /\ vector_arrays' =
          [key \in DOMAIN vector_dtypes |->
              [data |-> [j \in 0..(vector_dtypes[key] - 1) |-> Uninitialized],
               index |-> [j \in 0..(Len(data) - 1) |-> [start |-> -1, stop |-> -1]]]]
    /\ frame_idx' = 0
    /\ pc' = "fill"
    /\ UNCHANGED <<data, delete_while_filling, scalar_dtypes, vector_dtypes, error>>
    /\ UNCHANGED <<indexing, batch, event, use_priors, i, population, counters, locals,
                   trace, settings, stdout, inputs, built, call, assembled>>

\* lines 968-1013: fill the arrays, one frame
FillFrame ==
    /\ pc = "fill"
    /\ frame_idx < Len(data)
    /\ LET frame_d == data[frame_idx + 1]
           \* lines 1010-1011: the slice data[start:stop] has room for val
           fits(key) ==
               key \in DOMAIN frame_d =>
                   PrevStop(vector_arrays[key].index, frame_idx)
                       + Len(frame_d[key].val)
                     <= Cardinality(DOMAIN vector_arrays[key].data)
       IN  IF \E key \in DOMAIN vector_arrays : ~fits(key)
           THEN /\ pc' = "raised"
                /\ error' = "could not broadcast input array"
                /\ UNCHANGED <<data, scalar_arrays, vector_arrays, frame_idx>>
           ELSE /\ scalar_arrays' =
                      [key \in DOMAIN scalar_arrays |->
                          FillScalar(scalar_arrays[key], frame_idx, frame_d, key,
                                     Len(data))]
                /\ vector_arrays' =
                      [key \in DOMAIN vector_arrays |->
                          FillVector(vector_arrays[key], frame_idx, frame_d, key)]
                /\ data' =
                      IF delete_while_filling
                      THEN [data EXCEPT ![frame_idx + 1] =
                              [key \in DOMAIN frame_d
                                        \ (DOMAIN scalar_arrays \cup DOMAIN vector_arrays)
                                  |-> frame_d[key]]]
                      ELSE data
                /\ frame_idx' = frame_idx + 1
                /\ pc' = IF frame_idx + 1 = Len(data) THEN "constructed" ELSE "fill"
                /\ UNCHANGED error
    /\ UNCHANGED <<delete_while_filling, scalar_dtypes, vector_dtypes>>
    /\ UNCHANGED <<indexing, batch, event, use_priors, i, population, counters, locals,
                   trace, settings, stdout, inputs, built, call, assembled>>

NextColumnar == GetTypeAndSize \/ ConstructEmptyArrays \/ FillFrame

SpecColumnar == InitColumnar /\ [][NextColumnar]_vars

(***************************************************************************)
(* The index arrays of construct_arrays                                    *)
(***************************************************************************)

\* the vector keys of the frames
VectorKeysOf(frames) ==
    {key \in VectorKeys : \E f \in 1..Len(frames) : key \in DOMAIN frames[f]}

\* C30: for every vector key the per-frame index entries are contiguous and
\* ordered: the first frame's start is 0, each later frame's start is the
\* previous frame's stop, stop - start is the length of that frame's vector
\* (0 when the frame lacks the key), and the last frame's stop is the length
\* of the key's data array.
C30_IndexContiguous ==
    /\ [](pc = "fill" /\ frame_idx = 0 => DOMAIN vector_arrays = VectorKeysOf(data))
    /\ [](pc \in {"fill", "constructed"} =>
             \A key \in DOMAIN vector_arrays :
                 LET index == vector_arrays[key].index
                 IN  /\ DOMAIN index = 0..(Len(data) - 1)
                     /\ \A f \in 0..(frame_idx - 1) :
                           index[f].start = IF f = 0 THEN 0 ELSE index[f - 1].stop
                     /\ pc = "constructed" =>
                           index[Len(data) - 1].stop
                               = Cardinality(DOMAIN vector_arrays[key].data))
    /\ [][pc = "fill" =>
             /\ pc' # "raised"
             /\ \A key \in DOMAIN vector_arrays :
                   LET entry == vector_arrays'[key].index[frame_idx]
                       frame_d == data[frame_idx + 1]
                   IN  /\ entry.stop - entry.start
                             = IF key \in DOMAIN frame_d
                               THEN Len(frame_d[key].val) ELSE 0
                       /\ \A e \in 1..(entry.stop - entry.start) :
                             vector_arrays'[key].data[entry.start + e - 1]
                                 = frame_d[key].val[e]]_vars

\* three frames were filled: the first has two pulses, the second lacks the
\* key and the third has one
C30_Witness ==
    /\ pc = "constructed"
    /\ Len(data) = 3
    /\ "pulses" \in DOMAIN vector_arrays
    /\ vector_arrays["pulses"].index[0] = [start |-> 0, stop |-> 2]
    /\ vector_arrays["pulses"].index[1] = [start |-> 2, stop |-> 2]
    /\ vector_arrays["pulses"].index[2] = [start |-> 2, stop |-> 3]
    /\ Cardinality(DOMAIN vector_arrays["pulses"].data) = 3

====
